---- MODULE Spec2Model ----
(***************************************************************************)
(* waylrc: the synchronisation and scheduling engine.                      *)
(*                                                                         *)
(* The model follows src/src/event_loop/*.rs (dispatcher and handlers),    *)
(* src/src/player.rs (playback position model, lyrics resolution) and      *)
(* src/src/lrc.rs (lyrics document).  Time is counted in whole seconds:    *)
(* a TimeTag, a Duration and an Instant are naturals, a player position    *)
(* (i64 microseconds in the code) is an integer number of seconds.         *)
(***************************************************************************)
EXTENDS Integers, Sequences, FiniteSets, TLC

VARIABLES
    available_players,   \* HashMap bus -> (PlayerInformation, JoinHandle)
    lyrics_manager,      \* LyricsManager: slot, timer, loop tracking
    tasks,               \* listener tasks that are running
    channel,             \* mpsc::channel(1): the buffered updates
    loop_check_timer,    \* deadline of the next periodic check tick
    now,                 \* wall clock
    events,              \* external events consumed so far
    crashed,             \* a handler panicked: the process is gone
    last,                \* the dispatcher branch that ran last, its input
    out,                 \* the renders printed by the branch that ran last
    log,                 \* the messages logged by the branch that ran last
    paused_at,           \* history: per bus, the time tag at the instant of the
                         \* Playing -> Paused update, while it is the last update
    call,                \* pure-function specifications: input and result
    dbus_stream,         \* "open", or "closed" once next() has returned None
    allowed_players      \* the --player arguments

vars == <<available_players, lyrics_manager, tasks, channel,
          loop_check_timer, now, events, crashed, last, out, log, paused_at, call,
          dbus_stream, allowed_players>>

loopVars == <<available_players, lyrics_manager, tasks, channel,
              loop_check_timer, now, events, crashed, last, out, log, paused_at,
              dbus_stream, allowed_players>>

-----------------------------------------------------------------------------
(* Option<T>: None is the empty sequence, Some(x) a one-element sequence.   *)

None == <<>>

Some(x) == <<x>>

IsSome(o) == o # <<>>

Unwrap(o) == o[1]

SetMin(S) == CHOOSE x \in S : \A y \in S : x <= y

-----------------------------------------------------------------------------
(* Bounds of the model.                                                     *)

\* the wall clock stops advancing here (SpecSolo)
MaxNow == 2

\* the wall clock stops advancing here (Spec)
DuoMaxNow == 1

\* external events (bus changes, updates sent by listeners) per behaviour
MaxEvents == 3

\* keys of the documents the pure specification of Lrc::get enumerates
MaxKey == 3

\* lines of the texts the specification of the parser reads
MaxLines == 3

\* tokens after the time tag in the lines LrcLine::from_str is applied to
MaxTokens == 4

\* the wall clock stops advancing here (SpecTimer)
TimerMaxNow == 2

\* the wall clock stops advancing here (SpecLoop): past the second tick of
\* the periodic check
LoopMaxNow == 4

-----------------------------------------------------------------------------
(* Program constants.                                                       *)

\* detect_loop_restart: current_pos < Duration::from_secs(15)
LoopNearStartSecs == 15

\* detect_loop_restart: prev > Duration::from_secs(60)
LoopWellIntoSecs == 60

\* detect_loop_restart, handle_loop_check_timer: (prev - current) > 30 s
LoopBackJumpSecs == 30

\* refresh_lyrics_display: current_duration < Duration::from_secs(10)
RefreshNearStartSecs == 10

\* event_loop: tokio::time::interval(Duration::from_secs(3))
LoopCheckPeriodSecs == 3

\* mpsc::channel(1)
ChannelCapacity == 1

\* TimeTag::from(Duration::from_secs(u64::MAX)), the "lyrics ended" marker:
\* a tag beyond every key and every position of the model
ExhaustedTag == 1000000

-----------------------------------------------------------------------------
(* src/src/lrc.rs: the lyrics document.  An Lrc is a sequence of versions,  *)
(* a version (BTreeMap<TimeTag, String>) a function from its keys to text.  *)

\* lines.range(time..): the keys of one version at or after `time`
range_from(lines, time) == {k \in DOMAIN lines : k >= time}

\* fault injected to validate C36: the candidate boundary of a version is
\* its first key at or after the time, the key of the text itself
get_version_without_advance(lines, time) ==
    LET r == range_from(lines, time) IN
    IF r = {} THEN [text |-> None, next |-> None]
    ELSE [text |-> Some(lines[SetMin(r)]), next |-> Some(SetMin(r))]

\* one iteration of the loop of Lrc::get: the version's text and candidate
\* boundary; a version whose range is empty is skipped (`continue`)
get_version(lines, time) ==
    LET r == range_from(lines, time) IN
    IF r = {} THEN [text |-> None, next |-> None]
    ELSE LET first == SetMin(r)
             rest  == r \ {first}
         IN [text |-> Some(lines[first]),
             next |-> IF rest = {} THEN None ELSE Some(SetMin(rest))]

RECURSIVE get_fold(_, _, _, _, _)
get_fold(lrc, time, i, texts, next_time) ==
    IF i > Len(lrc) THEN [texts |-> texts, next |-> next_time]
    ELSE LET v == get_version(lrc[i], time) IN
         IF ~IsSome(v.text) THEN get_fold(lrc, time, i + 1, texts, next_time)
         ELSE LET nt == IF IsSome(v.next)
                           /\ (~IsSome(next_time) \/ Unwrap(v.next) < Unwrap(next_time))
                        THEN v.next ELSE next_time
              IN get_fold(lrc, time, i + 1, Append(texts, Unwrap(v.text)), nt)

\* Lrc::get(&self, time) -> (Vec<&str>, Option<TimeTag>)
get(lrc, time) == get_fold(lrc, time, 1, <<>>, None)

\* TimeTag::duration_from: (self - from) / rate; Duration subtraction
\* panics when self < from
duration_from_panics(to, from) == to < from

duration_from(to, from, rate) == (to - from) \div rate

-----------------------------------------------------------------------------
(* src/src/lrc.rs: the parser.  A line of text is the sequence of its       *)
(* tokens: "[mm:ss.xx]" (tag), "[...]" that is no time tag (bracket),       *)
(* "<mm:ss.xx>" (a2), "F:" "M:" "D:" (gender), whitespace (space) and any   *)
(* other run of characters (word).  A text is a sequence of tokens too, so  *)
(* that "ab" and "a b" differ.                                              *)

Token(kind, s, m, cs) == [kind |-> kind, s |-> s, m |-> m, cs |-> cs]

\* "[mm:ss.xx]", xx given with the seconds in hundredths of a second
Tag(m, cs) == Token("tag", "", m, cs)

\* "<mm:ss.xx>"
A2(m, cs) == Token("a2", "", m, cs)

Bracket(s) == Token("bracket", s, 0, 0)

Gender(s) == Token("gender", s, 0, 0)

Word(s) == Token("word", s, 0, 0)

Space == Token("space", " ", 0, 0)

\* TimeTag::from_str: minutes * 60 + seconds, here in hundredths of a second
TimeTag_from_str(tag) == tag.m * 6000 + tag.cs

\* str::trim_start
RECURSIVE trim_start(_)
trim_start(s) ==
    IF s # <<>> /\ Head(s).kind = "space" THEN trim_start(Tail(s)) ELSE s

\* str::trim_start_matches(pat): every leading repetition of pat goes
RECURSIVE trim_start_matches(_, _)
trim_start_matches(s, pat) ==
    IF s # <<>> /\ Head(s) = Gender(pat) THEN trim_start_matches(Tail(s), pat)
    ELSE s

\* LrcLine::from_str, lines 77-92: the leading time tags, whitespace before
\* a tag trimmed; anything that is not a time tag ends the loop
RECURSIVE leading_tags(_, _)
leading_tags(s, time) ==
    LET t == trim_start(s) IN
    IF t # <<>> /\ Head(t).kind = "tag"
    THEN leading_tags(Tail(t), Append(time, TimeTag_from_str(Head(t))))
    ELSE [time |-> time, rest |-> t]

\* LrcLine::from_str, lines 102-130: a "<mm:ss.xx>" is dropped with the
\* whitespace after it, and what follows that whitespace is pushed as it is
RECURSIVE strip_a2(_, _)
strip_a2(s, text) ==
    IF s = <<>> THEN text
    ELSE IF Head(s).kind = "a2"
    THEN LET after == trim_start(Tail(s)) IN
         IF after = <<>> THEN text
         ELSE strip_a2(Tail(after), Append(text, Head(after)))
    ELSE strip_a2(Tail(s), Append(text, Head(s)))

\* LrcLine::from_str
from_str(s) ==
    LET lead == leading_tags(s, <<>>)
        plain == trim_start(
                     trim_start_matches(
                         trim_start_matches(
                             trim_start_matches(lead.rest, "F:"), "M:"), "D:"))
    IN [time |-> lead.time, text |-> strip_a2(plain, <<>>)]

\* BTreeMap::last_entry, its key
last_key(lines) == CHOOSE k \in DOMAIN lines : \A j \in DOMAIN lines : j <= k

\* BTreeMap::insert
insert(lines, time, text) == (time :> text) @@ lines

\* lrc.last_mut(): the document with its last version replaced
with_last(lrc, lines) == [lrc EXCEPT ![Len(lrc)] = lines]

\* Lrc::from_reader, line.time.len() == 0
insert_untimed(lrc, text) ==
    LET lrc_last == lrc[Len(lrc)] IN
    IF DOMAIN lrc_last # {}
    THEN with_last(lrc, [lrc_last EXCEPT ![last_key(lrc_last)] = @ \o text])
    ELSE with_last(lrc, insert(lrc_last, 0, text))

\* insert_single with a new version started for every line
insert_single_always_new_version(lrc, time, text) ==
    IF DOMAIN lrc[Len(lrc)] # {} THEN Append(lrc, insert(<<>>, time, text))
    ELSE with_last(lrc, insert(lrc[Len(lrc)], time, text))

\* insert_single with a new version started at an equal time tag as well
insert_single_new_version_on_equal(lrc, time, text) ==
    IF DOMAIN lrc[Len(lrc)] # {} /\ last_key(lrc[Len(lrc)]) >= time
    THEN Append(lrc, insert(<<>>, time, text))
    ELSE with_last(lrc, insert(lrc[Len(lrc)], time, text))

\* Lrc::from_reader, line.time.len() == 1
insert_single(lrc, time, text) ==
    LET lrc_last == lrc[Len(lrc)] IN
    IF DOMAIN lrc_last # {} /\ last_key(lrc_last) > time
    THEN Append(lrc, insert(<<>>, time, text))
    ELSE with_last(lrc, insert(lrc_last, time, text))

\* insert_repeated with every time tag handled like the tag of a line of its
\* own: a tag below the latest key starts a new version
RECURSIVE insert_repeated_one_by_one(_, _, _)
insert_repeated_one_by_one(lrc, times, text) ==
    IF times = <<>> THEN lrc
    ELSE insert_repeated_one_by_one(insert_single(lrc, Head(times), text),
                                    Tail(times), text)

\* Lrc::from_reader, line.time.len() > 1: for time in line.time
RECURSIVE insert_repeated(_, _, _)
insert_repeated(lrc, times, text) ==
    IF times = <<>> THEN lrc
    ELSE insert_repeated(with_last(lrc, insert(lrc[Len(lrc)], Head(times), text)),
                         Tail(times), text)

\* Lrc::from_reader, one iteration of `for line in lines`
from_reader_line(lrc, line) ==
    CASE Len(line.time) = 0 -> insert_untimed(lrc, line.text)
      [] Len(line.time) = 1 -> insert_single(lrc, line.time[1], line.text)
      [] OTHER -> insert_repeated(lrc, line.time, line.text)

-----------------------------------------------------------------------------
(* The environment the model runs in: bus names, lyrics documents, the      *)
(* files next to the media, the metadata snapshots the players report.      *)

\* lyrics of track A: one version
DocA == << (0 :> "a0" @@ 2 :> "a2" @@ 171 :> "a171" @@ 172 :> "a172") >>

\* lyrics of track C: two versions (bilingual)
DocC == << (0 :> "c0" @@ 1 :> "c1"), (0 :> "C0" @@ 3 :> "C3") >>

\* what Lrc::from_reader returns for an empty text: one empty version
EmptyDoc == << <<>> >>

\* Lrc::audio_url_to_path: Ok exactly for the URLs with the file:// scheme
audio_url_to_path_ok(url) == url \in {"file:///a.mp3", "file:///b.mp3", "file:///c.mp3"}

\* Path::is_file of the media path
is_file(url) == url \in {"file:///a.mp3", "file:///b.mp3", "file:///c.mp3"}

\* the sidecar file Lrc::audio_path_to_lrc names, parsed, when it is a file
lrc_file(url) ==
    CASE url = "file:///a.mp3" -> Some(DocA)
      [] url = "file:///c.mp3" -> Some(DocC)
      [] OTHER -> None

\* Lrc::from_audio_path: the parsed lyrics tags, None when lofty fails
from_audio_path(url) == None

\* fetch_lyrics_from_navidrome, parsed: None when the fetch fails
fetch_lyrics_from_navidrome(metadata) ==
    IF metadata.title = Some("D") THEN Some(DocC) ELSE None

\* the providers configured on the command line, in order
external_lrc_providers == << "NAVIDROME" >>

\* HashMap<String, OwnedValue>: the keys the engine reads
Meta(url, title, trackid, length, asText) ==
    [url |-> url, title |-> title, artist |-> Some("artist"), trackid |-> trackid,
     length |-> length, asText |-> asText]

MetaA == Meta(Some("file:///a.mp3"), Some("A"), Some("/track/a"), Some(180), None)

\* the same track as MetaA, another snapshot of it: a shorter mpris:length
MetaA2 == Meta(Some("file:///a.mp3"), Some("A"), Some("/track/a"), Some(171), None)

\* a track whose media file is there and whose lyrics cannot be read
MetaB == Meta(Some("file:///b.mp3"), Some("B"), Some("/track/b"), None, None)

MetaC == Meta(Some("file:///c.mp3"), Some("C"), Some("/track/c"), None, None)

\* a stream: no file, lyrics only from the external provider
MetaD == Meta(Some("http://d"), Some("D"), Some("/track/d"), None, None)

\* a stream for which no source has lyrics
MetaE == Meta(Some("http://e"), Some("E"), Some("/track/e"), None, None)

-----------------------------------------------------------------------------
(* src/src/player.rs: PlayerInformation.                                    *)

PlayerInformation(metadata, position, position_last_refresh, rate, status) ==
    [metadata |-> metadata, position |-> position,
     position_last_refresh |-> position_last_refresh,
     rate |-> rate, status |-> status]

\* self.rate.unwrap_or(1.0)
rate_or_default(info) == IF IsSome(info.rate) THEN Unwrap(info.rate) ELSE 1

\* Instant::elapsed
elapsed_since(instant, t) == IF t >= instant THEN t - instant ELSE 0

\* metadata.get("mpris:length"), as a Duration
track_length(metadata) == metadata.length

\* assert!(self.position >= 0, "Negative timetag encountered")
negative_timetag(info) == info.position < 0

\* fault injected to validate C5: the elapsed time accrues whatever the
\* playback status is
calculate_total_elapsed_any_status(info, t) ==
    info.position
        + (elapsed_since(info.position_last_refresh, t) \div rate_or_default(info))

\* PlayerInformation::calculate_total_elapsed, for a position that passes
\* the assertion
calculate_total_elapsed(info, t) ==
    LET elapsed == IF info.status = Some("Playing")
                   THEN elapsed_since(info.position_last_refresh, t) \div rate_or_default(info)
                   ELSE 0
    IN info.position + elapsed

\* fault injected to validate C7: the position is not clamped to the length
get_current_timetag_unclamped(info, t) == calculate_total_elapsed(info, t)

\* PlayerInformation::get_current_timetag
get_current_timetag(info, t) ==
    LET calculated_position == calculate_total_elapsed(info, t)
        length == track_length(info.metadata)
    IN IF IsSome(length) /\ calculated_position > Unwrap(length)
       THEN Unwrap(length)
       ELSE calculated_position

\* PlayerInformation::get_loop_count -> (loop_count, position_in_loop)
get_loop_count(info, t) ==
    LET total_elapsed == calculate_total_elapsed(info, t)
        length == track_length(info.metadata)
    IN IF IsSome(length) /\ Unwrap(length) > 0
       THEN [count |-> total_elapsed \div Unwrap(length),
             position |-> total_elapsed % Unwrap(length)]
       ELSE [count |-> 0, position |-> total_elapsed]

\* PlayerInformationUpdate
Metadata(m) == [kind |-> "Metadata", metadata |-> Some(m), rate |-> None,
                status |-> None, position |-> None, instant |-> None]

Rate(r) == [kind |-> "Rate", metadata |-> None, rate |-> Some(r),
            status |-> None, position |-> None, instant |-> None]

Status(s) == [kind |-> "Status", metadata |-> None, rate |-> None,
              status |-> Some(s), position |-> None, instant |-> None]

Position(p, i) == [kind |-> "Position", metadata |-> None, rate |-> None,
                   status |-> None, position |-> Some(p), instant |-> Some(i)]

\* PlayerInformation::apply_update
apply_update(info, update) ==
    CASE update.kind = "Metadata" -> [info EXCEPT !.metadata = Unwrap(update.metadata)]
      [] update.kind = "Rate"     -> [info EXCEPT !.rate = update.rate]
      [] update.kind = "Status"   -> [info EXCEPT !.status = update.status]
      [] update.kind = "Position" -> [info EXCEPT !.position = Unwrap(update.position),
                                                  !.position_last_refresh = Unwrap(update.instant)]

\* Option<Result<Lrc>>
LyricsOk(lrc) == [kind |-> "ok", lrc |-> lrc]

LyricsErr == [kind |-> "err", lrc |-> <<>>]

LyricsNone == [kind |-> "none", lrc |-> <<>>]

\* PlayerInformation::get_lyrics.  asText, when present, is
\* [single_line, lrc]: whether lines().count() == 1, and the parsed text.
get_lyrics(metadata) ==
    LET text == metadata.asText
        multi_line == IsSome(text) /\ ~Unwrap(text).single_line
        mpris_lrc == IF IsSome(text) /\ Unwrap(text).single_line
                     THEN Some(Unwrap(text).lrc) ELSE None
        url == metadata.url
    IN IF multi_line THEN LyricsOk(Unwrap(text).lrc)
       ELSE IF IsSome(url) /\ audio_url_to_path_ok(Unwrap(url))
       THEN IF IsSome(lrc_file(Unwrap(url)))
            THEN LyricsOk(Unwrap(lrc_file(Unwrap(url))))
            ELSE IF IsSome(from_audio_path(Unwrap(url)))
                 THEN LyricsOk(Unwrap(from_audio_path(Unwrap(url))))
                 ELSE LyricsErr
       ELSE IF IsSome(mpris_lrc) THEN LyricsOk(Unwrap(mpris_lrc))
       ELSE LyricsNone

RECURSIVE try_providers(_, _, _)
try_providers(metadata, providers, i) ==
    IF i > Len(providers) THEN LyricsNone
    ELSE IF providers[i] = "NAVIDROME" /\ IsSome(fetch_lyrics_from_navidrome(metadata))
         THEN LyricsOk(Unwrap(fetch_lyrics_from_navidrome(metadata)))
         ELSE try_providers(metadata, providers, i + 1)

\* PlayerInformation::get_lyrics_with_external (get_lyrics_async)
get_lyrics_with_external(metadata) ==
    LET local == get_lyrics(metadata) IN
    IF local.kind # "none" THEN local
    ELSE try_providers(metadata, external_lrc_providers, 1)

\* scanner::is_player_active
is_player_active(info) ==
    /\ info.status = Some("Playing")
    /\ IsSome(info.metadata.url)
    /\ audio_url_to_path_ok(Unwrap(info.metadata.url))
    /\ is_file(Unwrap(info.metadata.url))

-----------------------------------------------------------------------------
(* The registry: available_players maps every bus name to None or to       *)
(* Some([info, task]), the player's state and the handle of its listener.  *)

BusNames == {"org.mpris.MediaPlayer2.p1", "org.mpris.MediaPlayer2.p2"}

registered(players) == {b \in BusNames : IsSome(players[b])}

info_of(players, bus) == Unwrap(players[bus]).info

set_info(players, bus, info) ==
    [players EXCEPT ![bus] = Some([info |-> info, task |-> Unwrap(players[bus]).task])]

\* metadata.get(key).and_then(extract_str) of the four identity keys
track_identity(metadata) ==
    <<metadata.url, metadata.title, metadata.artist, metadata.trackid>>

-----------------------------------------------------------------------------
(* src/src/out.rs: what is printed.  text is the list of line texts that    *)
(* join(" ") concatenates (Some(<<>>) prints ""), tooltip the metadata that *)
(* format_metadata formats.                                                 *)

WaybarCustomModule(text, tooltip) == [text |-> text, tooltip |-> tooltip]

\* WaybarCustomModule::empty()
EmptyModule == WaybarCustomModule(None, None)

-----------------------------------------------------------------------------
(* src/src/event_loop/lyrics_manager.rs                                     *)

CurrentPlayerState(bus, lrc, next_lrc_timetag) ==
    [bus |-> bus, lrc |-> lrc, next_lrc_timetag |-> next_lrc_timetag]

\* LyricsManager::new.  current_player_timer: None is Either::Right(pending()),
\* Some(d) is Either::Left(Sleep) with deadline d.
NewLyricsManager ==
    [current_player |-> None, current_player_timer |-> None,
     last_known_position |-> None, current_track_id |-> None,
     last_loop_count |-> None]

\* LyricsManager::clear_state: the new manager and the render it prints
clear_state(lm) == [lm |-> NewLyricsManager, out |-> << EmptyModule >>]

\* p.next_lrc_timetag == TimeTag::from(Duration::from_secs(u64::MAX))
lyrics_ended(lm) ==
    /\ IsSome(lm.current_player)
    /\ Unwrap(lm.current_player).next_lrc_timetag = ExhaustedTag

\* fault injected to validate C9: any backward jump counts as a restart
detect_loop_restart_any_backward(lm, current_pos, is_position_update, is_metadata_update) ==
    /\ is_position_update \/ is_metadata_update
    /\ IsSome(lm.last_known_position)
    /\ Unwrap(lm.last_known_position) > current_pos

\* LyricsManager::detect_loop_restart
detect_loop_restart(lm, current_pos, is_position_update, is_metadata_update) ==
    IF ~(is_position_update \/ is_metadata_update) THEN FALSE
    ELSE LET prev == lm.last_known_position
             traditional_loop ==
                 /\ current_pos < LoopNearStartSecs
                 /\ IsSome(prev) /\ Unwrap(prev) > LoopWellIntoSecs
             lyrics_ended_loop ==
                 /\ lyrics_ended(lm)
                 /\ IsSome(prev) /\ Unwrap(prev) > current_pos
                 /\ Unwrap(prev) - current_pos > LoopBackJumpSecs
         IN traditional_loop \/ lyrics_ended_loop

\* refresh_lyrics_display: the time tag the line is looked up at
refresh_timetag(info, t) ==
    LET current_timetag == get_current_timetag(info, t)
        length == track_length(info.metadata)
    IN IF IsSome(length) /\ current_timetag > Unwrap(length) THEN 0
       ELSE current_timetag

\* LyricsManager::refresh_lyrics_display, for a position that passes the
\* assertion of calculate_total_elapsed: the new manager and the renders
refresh_lyrics_display(lm, bus, lrc, info, track_id, t) ==
    LET lm1 == IF lm.current_track_id # track_id
               THEN [lm EXCEPT !.last_known_position = None,
                               !.current_track_id = track_id]
               ELSE lm
        current_timetag == refresh_timetag(info, t)
        found == get(lrc, current_timetag)
        line == WaybarCustomModule(Some(found.texts), Some(info.metadata))
    IN IF ~IsSome(found.next)
       THEN [lm |-> [lm1 EXCEPT
                       !.current_player = Some(CurrentPlayerState(bus, lrc, ExhaustedTag)),
                       !.current_player_timer = None],
             out |-> << line, WaybarCustomModule(Some(<<>>), Some(info.metadata)) >>]
       ELSE [lm |-> [lm1 EXCEPT
                       !.current_player =
                           Some(CurrentPlayerState(bus, lrc, Unwrap(found.next))),
                       !.current_player_timer =
                           Some(t + duration_from(Unwrap(found.next), current_timetag,
                                                  rate_or_default(info)))],
             out |-> << line >>]

\* LyricsManager::update_position
update_position(lm, current_pos, is_position_update, is_metadata_update) ==
    IF is_position_update \/ is_metadata_update
    THEN [lm EXCEPT !.last_known_position = Some(current_pos)]
    ELSE lm

-----------------------------------------------------------------------------
(* scanner::find_active_player_with_lyrics: the players the scan can        *)
(* return.  The registry is a HashMap, iterated in no particular order, so *)
(* the first eligible player found is any eligible player.                  *)

eligible(players) ==
    {b \in registered(players) :
        /\ is_player_active(info_of(players, b))
        /\ get_lyrics_with_external(info_of(players, b).metadata).kind = "ok"}

find_active_player_with_lyrics(players) ==
    IF eligible(players) = {} THEN {None}
    ELSE {Some(b) : b \in eligible(players)}

\* the tail shared by handle_bus_destroyed and handle_player_update: display
\* the player the scan returned, or clear the state
switch_to(players, lm, found, t) ==
    IF IsSome(found)
    THEN LET info == info_of(players, Unwrap(found)) IN
         IF negative_timetag(info)
         THEN [players |-> players, lm |-> lm, out |-> <<>>, log |-> {}, panic |-> TRUE]
         ELSE LET r == refresh_lyrics_display(
                           lm, Unwrap(found),
                           get_lyrics_with_external(info.metadata).lrc,
                           info, info.metadata.trackid, t)
              IN [players |-> players, lm |-> r.lm, out |-> r.out, log |-> {},
                  panic |-> FALSE]
    ELSE [players |-> players, lm |-> clear_state(lm).lm,
          out |-> clear_state(lm).out, log |-> {}, panic |-> FALSE]

-----------------------------------------------------------------------------
(* The handlers.  Each returns the set of outcomes the handler can have:    *)
(* [players, lm, out, log, panic], where panic says that an assertion or   *)
(* an index failed on the way and the process aborted.                      *)

Outcome(players, lm, o) ==
    [players |-> players, lm |-> lm, out |-> o, log |-> {}, panic |-> FALSE]

Logged(players, lm, o, messages) ==
    [players |-> players, lm |-> lm, out |-> o, log |-> messages, panic |-> FALSE]

Panicked(players, lm) ==
    [players |-> players, lm |-> lm, out |-> <<>>, log |-> {}, panic |-> TRUE]

\* tracing::info!("Detected song loop restart: ...")
LoopRestartMessage == "Detected song loop restart"

\* tracing::info!(..., "Track changed, reloading lyrics")
TrackChangedMessage == "Track changed, reloading lyrics"

\* tracing::error!("Attempting to update a non-existent player {bus_name}")
UnknownPlayerMessage == "Attempting to update a non-existent player"

\* tracing::error!("Attempting to destroy a non-existent player {bus_name}")
UnknownDestroyMessage == "Attempting to destroy a non-existent player"

\* tracing::error!("Lyric timer expired but no active player is found")
NoPlayerMessage == "Lyric timer expired but no active player is found"

\* update_player_info without the pre-reset of a metadata update: position
\* and capture instant of the previous track survive a track change
update_player_info_without_reset(info, update, t) ==
    LET applied == apply_update(info, update)
    IN IF update.kind # "Status" THEN [info |-> applied, panic |-> FALSE]
       ELSE IF negative_timetag(applied) THEN [info |-> applied, panic |-> TRUE]
       ELSE [info |-> [applied EXCEPT
                         !.position = applied.position
                             + (elapsed_since(applied.position_last_refresh, t)
                                  \div rate_or_default(applied)),
                         !.position_last_refresh = t],
             panic |-> FALSE]

\* handle_player_update, lines 51-78: the pre-reset on a metadata update,
\* apply_update, and the position freeze on a status update
update_player_info(info, update, t) ==
    LET pre == IF update.kind = "Metadata"
               THEN [info EXCEPT !.position = 0, !.position_last_refresh = t]
               ELSE info
        applied == apply_update(pre, update)
    IN IF update.kind # "Status" THEN [info |-> applied, panic |-> FALSE]
       ELSE IF negative_timetag(applied) THEN [info |-> applied, panic |-> TRUE]
       ELSE [info |-> [applied EXCEPT
                         !.position = applied.position
                             + (elapsed_since(applied.position_last_refresh, t)
                                  \div rate_or_default(applied)),
                         !.position_last_refresh = t],
             panic |-> FALSE]

\* update_current_player with a failed reload handled like a lost player:
\* the registry is scanned and the slot moves to an eligible player
update_current_player_fails_over(players, lm, bus, update, info, old_identity, t) ==
    LET player == Unwrap(lm.current_player)
        taken == [lm EXCEPT !.current_player = None]
        is_position_update == update.kind = "Position"
        is_status_update == update.kind = "Status"
        is_metadata_update == update.kind = "Metadata"
        track_changed == old_identity # track_identity(info.metadata)
        loaded == get_lyrics_with_external(info.metadata)
    IN IF track_changed /\ loaded.kind # "ok"
       THEN LET reset == [info EXCEPT !.position = 0, !.position_last_refresh = t]
                players1 == set_info(players, bus, reset)
            IN switch_to(players1, taken,
                         CHOOSE f \in find_active_player_with_lyrics(players1) : TRUE, t)
       ELSE IF negative_timetag(info) THEN Panicked(players, lm)
       ELSE LET lrc == IF track_changed THEN loaded.lrc ELSE player.lrc
                needs_reload == track_changed \/ is_position_update \/ is_status_update
                current_pos == get_current_timetag(info, t)
                is_loop_restart == detect_loop_restart(taken, current_pos,
                                        is_position_update, is_metadata_update)
                r == IF needs_reload \/ is_loop_restart
                     THEN refresh_lyrics_display(taken, bus, lrc, info,
                                                 info.metadata.trackid, t)
                     ELSE [lm |-> taken, out |-> <<>>]
            IN Logged(set_info(players, bus, info),
                      update_position(r.lm, current_pos,
                                      is_position_update, is_metadata_update),
                      r.out,
                      (IF is_loop_restart THEN {LoopRestartMessage} ELSE {})
                          \cup (IF track_changed THEN {TrackChangedMessage} ELSE {}))

\* update_current_player with the loop restart tested before the track
\* change: an update flagged as a restart redisplays the document the slot
\* held, whatever the track
update_current_player_restart_first(players, lm, bus, update, info, old_identity, t) ==
    LET player == Unwrap(lm.current_player)
        taken == [lm EXCEPT !.current_player = None]
        is_position_update == update.kind = "Position"
        is_status_update == update.kind = "Status"
        is_metadata_update == update.kind = "Metadata"
        is_loop_restart == detect_loop_restart(taken, get_current_timetag(info, t),
                                is_position_update, is_metadata_update)
        track_changed == ~is_loop_restart
                            /\ old_identity # track_identity(info.metadata)
        loaded == get_lyrics_with_external(info.metadata)
    IN IF track_changed /\ loaded.kind # "ok"
       THEN LET reset == [info EXCEPT !.position = 0, !.position_last_refresh = t]
            IN Logged(set_info(players, bus, reset),
                      clear_state(taken).lm, clear_state(taken).out,
                      {TrackChangedMessage})
       ELSE IF negative_timetag(info) THEN Panicked(players, lm)
       ELSE LET lrc == IF track_changed THEN loaded.lrc ELSE player.lrc
                needs_reload == track_changed \/ is_position_update \/ is_status_update
                current_pos == get_current_timetag(info, t)
                r == IF needs_reload \/ is_loop_restart
                     THEN refresh_lyrics_display(taken, bus, lrc, info,
                                                 info.metadata.trackid, t)
                     ELSE [lm |-> taken, out |-> <<>>]
            IN Logged(set_info(players, bus, info),
                      update_position(r.lm, current_pos,
                                      is_position_update, is_metadata_update),
                      r.out,
                      (IF is_loop_restart THEN {LoopRestartMessage} ELSE {})
                          \cup (IF track_changed THEN {TrackChangedMessage} ELSE {}))

\* handle_player_update, lines 91-177: the current player is still active
update_current_player(players, lm, bus, update, info, old_identity, t) ==
    LET player == Unwrap(lm.current_player)
        \* lyrics_manager.current_player.take()
        taken == [lm EXCEPT !.current_player = None]
        is_position_update == update.kind = "Position"
        is_status_update == update.kind = "Status"
        is_metadata_update == update.kind = "Metadata"
        track_changed == old_identity # track_identity(info.metadata)
        loaded == get_lyrics_with_external(info.metadata)
    IN IF track_changed /\ loaded.kind # "ok"
       THEN LET reset == [info EXCEPT !.position = 0, !.position_last_refresh = t]
            IN Logged(set_info(players, bus, reset),
                      clear_state(taken).lm, clear_state(taken).out,
                      {TrackChangedMessage})
       ELSE IF negative_timetag(info) THEN Panicked(players, lm)
       ELSE LET lrc == IF track_changed THEN loaded.lrc ELSE player.lrc
                needs_reload == track_changed \/ is_position_update \/ is_status_update
                current_pos == get_current_timetag(info, t)
                is_loop_restart == detect_loop_restart(taken, current_pos,
                                        is_position_update, is_metadata_update)
                r == IF needs_reload \/ is_loop_restart
                     THEN refresh_lyrics_display(taken, bus, lrc, info,
                                                 info.metadata.trackid, t)
                     ELSE [lm |-> taken, out |-> <<>>]
            IN Logged(set_info(players, bus, info),
                      update_position(r.lm, current_pos,
                                      is_position_update, is_metadata_update),
                      r.out,
                      (IF is_loop_restart THEN {LoopRestartMessage} ELSE {})
                          \cup (IF track_changed THEN {TrackChangedMessage} ELSE {}))

\* handle_player_update, lines 190-201: another player, and the slot is empty
update_idle_player(players, lm, bus, info, t) ==
    LET fresh == [info EXCEPT !.position_last_refresh = t]
        loaded == get_lyrics_with_external(fresh.metadata)
    IN IF loaded.kind # "ok" THEN Outcome(set_info(players, bus, fresh), lm, <<>>)
       ELSE IF negative_timetag(fresh) THEN Panicked(players, lm)
       ELSE LET r == refresh_lyrics_display(lm, bus, loaded.lrc, fresh,
                                            fresh.metadata.trackid, t)
            IN Outcome(set_info(players, bus, fresh), r.lm, r.out)

\* update_registered_player with a current player that went inactive handled
\* as a destroyed one: its entry leaves the registry before the scan
update_registered_player_drops_inactive(players, lm, bus, update, t) ==
    LET old == info_of(players, bus)
        u == update_player_info(old, update, t)
        players1 == set_info(players, bus, u.info)
        dropped == [players EXCEPT ![bus] = None]
    IN IF u.panic THEN {Panicked(players, lm)}
       ELSE IF IsSome(lm.current_player) /\ Unwrap(lm.current_player).bus = bus
       THEN IF is_player_active(u.info)
            THEN {update_current_player(players, lm, bus, update, u.info,
                                        track_identity(old.metadata), t)}
            ELSE {switch_to(dropped, [lm EXCEPT !.current_player = None], f, t) :
                     f \in find_active_player_with_lyrics(dropped)}
       ELSE IF ~IsSome(lm.current_player) /\ is_player_active(u.info)
       THEN {update_idle_player(players, lm, bus, u.info, t)}
       ELSE {Outcome(players1, lm, <<>>)}

\* update_registered_player without the test for an empty slot: an update
\* of any active player puts that player in the slot
update_registered_player_preempts(players, lm, bus, update, t) ==
    LET old == info_of(players, bus)
        u == update_player_info(old, update, t)
        players1 == set_info(players, bus, u.info)
    IN IF u.panic THEN {Panicked(players, lm)}
       ELSE IF IsSome(lm.current_player) /\ Unwrap(lm.current_player).bus = bus
       THEN IF is_player_active(u.info)
            THEN {update_current_player(players, lm, bus, update, u.info,
                                        track_identity(old.metadata), t)}
            ELSE {switch_to(players1, [lm EXCEPT !.current_player = None], f, t) :
                     f \in find_active_player_with_lyrics(players1)}
       ELSE IF is_player_active(u.info)
       THEN {update_idle_player(players, lm, bus, u.info, t)}
       ELSE {Outcome(players1, lm, <<>>)}

\* handle_player_update, lines 40-201: the player is in the registry
update_registered_player(players, lm, bus, update, t) ==
    LET old == info_of(players, bus)
        u == update_player_info(old, update, t)
        players1 == set_info(players, bus, u.info)
    IN IF u.panic THEN {Panicked(players, lm)}
       ELSE IF IsSome(lm.current_player) /\ Unwrap(lm.current_player).bus = bus
       THEN IF is_player_active(u.info)
            THEN {update_current_player(players, lm, bus, update, u.info,
                                        track_identity(old.metadata), t)}
            ELSE {switch_to(players1, [lm EXCEPT !.current_player = None], f, t) :
                     f \in find_active_player_with_lyrics(players1)}
       ELSE IF ~IsSome(lm.current_player) /\ is_player_active(u.info)
       THEN {update_idle_player(players, lm, bus, u.info, t)}
       ELSE {Outcome(players1, lm, <<>>)}

\* fault injected to validate C4: no registry check, an unknown player is
\* handled as a current player that went away
handle_player_update_unguarded(players, lm, bus, update, t) ==
    IF bus \notin registered(players)
    THEN {switch_to(players, [lm EXCEPT !.current_player = None], f, t) :
             f \in find_active_player_with_lyrics(players)}
    ELSE update_registered_player(players, lm, bus, update, t)

\* handle_player_update
handle_player_update(players, lm, bus, update, t) ==
    IF bus \notin registered(players)
    THEN {Logged(players, lm, <<>>, {UnknownPlayerMessage})}
    ELSE update_registered_player(players, lm, bus, update, t)

\* handle_bus_created, after get_player_info returned (info, task)
handle_bus_created(players, lm, bus, info, task, t) ==
    LET entry == [players EXCEPT ![bus] = Some([info |-> info, task |-> task])]
        loaded == get_lyrics_with_external(info.metadata)
    IN IF is_player_active(info) /\ ~IsSome(lm.current_player) /\ loaded.kind = "ok"
       THEN IF negative_timetag(info) THEN Panicked(players, lm)
            ELSE LET r == refresh_lyrics_display(lm, bus, loaded.lrc, info,
                                                 info.metadata.trackid, t)
                 IN Outcome(entry, r.lm, r.out)
       ELSE Outcome(entry, lm, <<>>)

\* fault injected to validate C2: the state is cleared without a rescan
handle_bus_destroyed_no_rescan(players, lm, bus, t) ==
    IF bus \notin registered(players)
    THEN {Logged(players, lm, <<>>, {UnknownDestroyMessage})}
    ELSE LET removed == [players EXCEPT ![bus] = None] IN
         IF IsSome(lm.current_player) /\ Unwrap(lm.current_player).bus = bus
         THEN {Outcome(removed, clear_state(lm).lm, clear_state(lm).out)}
         ELSE {Outcome(removed, lm, <<>>)}

\* fault injected to validate C37: the entry is removed and the slot is
\* left as it was
handle_bus_destroyed_keeps_slot(players, lm, bus, t) ==
    IF bus \notin registered(players)
    THEN {Logged(players, lm, <<>>, {UnknownDestroyMessage})}
    ELSE {Outcome([players EXCEPT ![bus] = None], lm, <<>>)}

\* handle_bus_destroyed
handle_bus_destroyed(players, lm, bus, t) ==
    IF bus \notin registered(players)
    THEN {Logged(players, lm, <<>>, {UnknownDestroyMessage})}
    ELSE LET removed == [players EXCEPT ![bus] = None] IN
         IF IsSome(lm.current_player) /\ Unwrap(lm.current_player).bus = bus
         THEN {switch_to(removed, lm, f, t) :
                  f \in find_active_player_with_lyrics(removed)}
         ELSE {Outcome(removed, lm, <<>>)}

\* handle_lyrics_timer with the last boundary handled like a lost player:
\* the slot is cleared instead of being kept as exhausted
handle_lyrics_timer_clears_slot(players, lm, t) ==
    IF ~IsSome(lm.current_player) THEN Logged(players, lm, <<>>, {NoPlayerMessage})
    ELSE LET player == Unwrap(lm.current_player)
             found == get(player.lrc, player.next_lrc_timetag)
         IN IF player.bus \notin registered(players) THEN Panicked(players, lm)
            ELSE LET player_info == info_of(players, player.bus)
                     line == WaybarCustomModule(Some(found.texts),
                                                Some(player_info.metadata))
                 IN IF ~IsSome(found.next)
                    THEN Outcome(players,
                                 [lm EXCEPT !.current_player = None,
                                            !.current_player_timer = None],
                                 << line, WaybarCustomModule(Some(<<>>),
                                                Some(player_info.metadata)) >>)
                    ELSE Outcome(players,
                                 [lm EXCEPT
                                    !.current_player = Some(CurrentPlayerState(
                                        player.bus, player.lrc, Unwrap(found.next))),
                                    !.current_player_timer =
                                        Some(t + duration_from(Unwrap(found.next),
                                                   player.next_lrc_timetag,
                                                   rate_or_default(player_info)))],
                                 << line >>)

\* fault injected to validate C40: at the last boundary the line is printed
\* and the slot and the timer are left as they were
handle_lyrics_timer_never_exhausts(players, lm, t) ==
    IF ~IsSome(lm.current_player) THEN Logged(players, lm, <<>>, {NoPlayerMessage})
    ELSE LET player == Unwrap(lm.current_player)
             found == get(player.lrc, player.next_lrc_timetag)
         IN IF player.bus \notin registered(players) THEN Panicked(players, lm)
            ELSE LET player_info == info_of(players, player.bus)
                     line == WaybarCustomModule(Some(found.texts),
                                                Some(player_info.metadata))
                 IN IF ~IsSome(found.next)
                    THEN Outcome(players, lm, << line >>)
                    ELSE Outcome(players,
                                 [lm EXCEPT
                                    !.current_player = Some(CurrentPlayerState(
                                        player.bus, player.lrc, Unwrap(found.next))),
                                    !.current_player_timer =
                                        Some(t + duration_from(Unwrap(found.next),
                                                   player.next_lrc_timetag,
                                                   rate_or_default(player_info)))],
                                 << line >>)

\* handle_lyrics_timer
handle_lyrics_timer(players, lm, t) ==
    IF ~IsSome(lm.current_player) THEN Logged(players, lm, <<>>, {NoPlayerMessage})
    ELSE LET player == Unwrap(lm.current_player)
             found == get(player.lrc, player.next_lrc_timetag)
         IN IF player.bus \notin registered(players) THEN Panicked(players, lm)
            ELSE LET player_info == info_of(players, player.bus)
                     line == WaybarCustomModule(Some(found.texts),
                                                Some(player_info.metadata))
                 IN IF ~IsSome(found.next)
                    THEN Outcome(players,
                                 [lm EXCEPT
                                    !.current_player = Some(CurrentPlayerState(
                                        player.bus, player.lrc, ExhaustedTag)),
                                    !.current_player_timer = None],
                                 << line, WaybarCustomModule(Some(<<>>),
                                                Some(player_info.metadata)) >>)
                    ELSE Outcome(players,
                                 [lm EXCEPT
                                    !.current_player = Some(CurrentPlayerState(
                                        player.bus, player.lrc, Unwrap(found.next))),
                                    !.current_player_timer =
                                        Some(t + duration_from(Unwrap(found.next),
                                                   player.next_lrc_timetag,
                                                   rate_or_default(player_info)))],
                                 << line >>)

\* handle_loop_check_timer, lines 27-122: the players the loop over the
\* HashMap visits before it breaks at the current player
loop_check_visits(players, lm) ==
    IF IsSome(lm.current_player) /\ Unwrap(lm.current_player).bus \in registered(players)
    THEN {v \in SUBSET registered(players) : Unwrap(lm.current_player).bus \in v}
    ELSE {registered(players)}

\* handle_loop_check_timer, having visited the players `visited`
handle_loop_check_timer(players, lm, visited, t) ==
    IF \E b \in visited : negative_timetag(info_of(players, b))
    THEN Panicked(players, lm)
    ELSE IF ~(IsSome(lm.current_player)
              /\ Unwrap(lm.current_player).bus \in registered(players))
    THEN Outcome(players, lm, <<>>)
    ELSE LET player == Unwrap(lm.current_player)
             info == info_of(players, player.bus)
             loop == get_loop_count(info, t)
             calc_pos == get_current_timetag(info, t)
             last_pos == lm.last_known_position
             should_refresh_due_to_loop ==
                 IsSome(lm.last_loop_count) /\ loop.count > Unwrap(lm.last_loop_count)
             should_refresh_due_to_position ==
                 /\ lyrics_ended(lm)
                 /\ IsSome(last_pos) /\ Unwrap(last_pos) > calc_pos
                 /\ Unwrap(last_pos) - calc_pos > LoopBackJumpSecs
         IN IF should_refresh_due_to_loop \/ should_refresh_due_to_position
            THEN LET info1 == IF should_refresh_due_to_loop
                              THEN [info EXCEPT !.position = loop.position,
                                                !.position_last_refresh = t]
                              ELSE info
                     r == refresh_lyrics_display(lm, player.bus, player.lrc, info1,
                                                 info1.metadata.trackid, t)
                 IN Outcome(set_info(players, player.bus, info1),
                            [r.lm EXCEPT
                               !.last_loop_count = Some(get_loop_count(info1, t).count),
                               !.last_known_position = Some(get_current_timetag(info1, t))],
                            r.out)
            ELSE Outcome(players,
                         [lm EXCEPT !.last_loop_count = Some(loop.count),
                                    !.last_known_position = Some(calc_pos)],
                         <<>>)

-----------------------------------------------------------------------------
(* src/src/dbus.rs: BusChange.  A name is the sequence of its characters.   *)

\* "org.mpris.MediaPlayer2"
MprisNamespace ==
    << "o", "r", "g", ".", "m", "p", "r", "i", "s", ".",
       "M", "e", "d", "i", "a", "P", "l", "a", "y", "e", "r", "2" >>

\* "org.mpris.MediaPlayer2."
MprisPrefix == Append(MprisNamespace, ".")

\* "all"
AllPlayers == << "a", "l", "l" >>

\* the part of a bus name of the model after "org.mpris.MediaPlayer2."
short_name(bus) ==
    CASE bus = "org.mpris.MediaPlayer2.p1" -> << "p", "1" >>
      [] bus = "org.mpris.MediaPlayer2.p2" -> << "p", "2" >>

\* BusChange::name
bus_name(bus) == MprisPrefix \o short_name(bus)

\* char::to_lowercase, on the letters that occur in the names
to_lowercase_char(c) ==
    CASE c = "A" -> "a"
      [] c = "L" -> "l"
      [] c = "M" -> "m"
      [] c = "P" -> "p"
      [] OTHER -> c

\* str::to_lowercase
to_lowercase(s) == [i \in 1..Len(s) |-> to_lowercase_char(s[i])]

\* str::starts_with
starts_with(s, prefix) ==
    Len(s) >= Len(prefix) /\ SubSeq(s, 1, Len(prefix)) = prefix

\* str::strip_prefix
strip_prefix(s, prefix) ==
    IF starts_with(s, prefix) THEN Some(SubSeq(s, Len(prefix) + 1, Len(s)))
    ELSE None

\* BusChange::is_mpris
is_mpris(name) == starts_with(name, MprisNamespace)

\* BusChange::matches_players
matches_players(name, players) ==
    IF ~is_mpris(name) THEN FALSE
    ELSE IF \E i \in 1..Len(players) : players[i] = AllPlayers THEN TRUE
    ELSE LET stripped == strip_prefix(name, MprisPrefix)
             player_name == IF IsSome(stripped) THEN Unwrap(stripped) ELSE name
         IN \E i \in 1..Len(players) :
               \/ player_name = players[i]
               \/ to_lowercase(player_name) = to_lowercase(players[i])
               \/ name = MprisPrefix \o players[i]

\* tracing::error!("DBus NameOwnerChanged stream closed")
StreamClosedMessage == "DBus NameOwnerChanged stream closed"

-----------------------------------------------------------------------------
(* src/src/event_loop/mod.rs: the dispatcher.  One action per branch of the *)
(* select!, one for a listener task sending an update, one for the clock.   *)

Branch(op, bus, update) == [op |-> op, bus |-> bus, update |-> update]

\* the state a handler leaves behind; a panic ends the process
Commit(r) ==
    /\ crashed' = r.panic
    /\ available_players' = IF r.panic THEN available_players ELSE r.players
    /\ lyrics_manager' = IF r.panic THEN lyrics_manager ELSE r.lm
    /\ out' = IF r.panic THEN <<>> ELSE r.out
    /\ log' = r.log

\* PlayerInformation::new at the instant the player is probed
snapshot(metadata, position, rate, status, t) ==
    PlayerInformation(metadata, position, t, rate, status)

\* bus_change = dbus_stream.next(), BusActivity::Created, get_player_info Ok:
\* a listener task is spawned and the entry inserted
BusCreated(bus, metadata, position, rate, status) ==
    /\ ~crashed /\ events < MaxEvents
    /\ dbus_stream = "open"
    /\ matches_players(bus_name(bus), allowed_players)
    /\ LET task == [bus |-> bus, id |-> events + 1]
           r == handle_bus_created(available_players, lyrics_manager, bus,
                    snapshot(metadata, position, rate, status, now), task.id, now)
       IN /\ Commit(r)
          /\ tasks' = tasks \cup {task}
    /\ events' = events + 1
    /\ last' = Branch("Created", bus, None)
    /\ paused_at' = [paused_at EXCEPT ![bus] = None]
    /\ UNCHANGED <<channel, loop_check_timer, now, call,
                   dbus_stream, allowed_players>>

\* BusActivity::Created, get_player_info Err: handle_bus_created returns early
BusCreatedFails(bus) ==
    /\ ~crashed /\ events < MaxEvents
    /\ dbus_stream = "open"
    /\ matches_players(bus_name(bus), allowed_players)
    /\ events' = events + 1
    /\ last' = Branch("CreatedFails", bus, None)
    /\ out' = <<>>
    /\ log' = {}
    /\ UNCHANGED <<available_players, lyrics_manager, tasks, channel,
                   loop_check_timer, now, crashed, paused_at, call,
                   dbus_stream, allowed_players>>

\* BusActivity::Destroyed: the entry is removed and its updater aborted
BusDestroyed(bus) ==
    /\ ~crashed /\ events < MaxEvents
    /\ dbus_stream = "open"
    /\ matches_players(bus_name(bus), allowed_players)
    /\ \E r \in handle_bus_destroyed(available_players, lyrics_manager, bus, now) :
          Commit(r)
    /\ tasks' = IF bus \in registered(available_players)
                THEN tasks \ {[bus |-> bus, id |-> Unwrap(available_players[bus]).task]}
                ELSE tasks
    /\ events' = events + 1
    /\ last' = Branch("Destroyed", bus, None)
    /\ paused_at' = [paused_at EXCEPT ![bus] = None]
    /\ UNCHANGED <<channel, loop_check_timer, now, call,
                   dbus_stream, allowed_players>>

\* the bus change is for a player that is not in the allowed list: `continue`
BusChangeSkipped(bus) ==
    /\ ~crashed /\ events < MaxEvents
    /\ dbus_stream = "open"
    /\ ~matches_players(bus_name(bus), allowed_players)
    /\ events' = events + 1
    /\ last' = Branch("Skipped", bus, None)
    /\ out' = <<>>
    /\ log' = {}
    /\ UNCHANGED <<available_players, lyrics_manager, tasks, channel,
                   loop_check_timer, now, crashed, paused_at, call,
                   dbus_stream, allowed_players>>

\* dbus_stream.next() returns None, the stream has ended: the error is
\* logged and the loop continues with its next iteration
BusStreamClosed ==
    /\ ~crashed
    /\ dbus_stream' = "closed"
    /\ last' = Branch("StreamClosed", "", None)
    /\ out' = <<>>
    /\ log' = {StreamClosedMessage}
    /\ UNCHANGED <<available_players, lyrics_manager, tasks, channel,
                   loop_check_timer, now, events, crashed, paused_at, call,
                   allowed_players>>

\* update_listener.rs, the spawned loop: update_sender.send((player_name, update))
ListenerSend(task, update) ==
    /\ ~crashed /\ events < MaxEvents
    /\ task \in tasks
    /\ Len(channel) < ChannelCapacity
    /\ channel' = Append(channel, [bus |-> task.bus, update |-> update, from |-> task.id])
    /\ events' = events + 1
    /\ last' = Branch("Send", task.bus, Some(update))
    /\ out' = <<>>
    /\ log' = {}
    /\ UNCHANGED <<available_players, lyrics_manager, tasks, loop_check_timer,
                   now, crashed, paused_at, call,
                   dbus_stream, allowed_players>>

\* history of the update just handled: the time tag at the instant of a
\* Playing -> Paused update; forgotten at the next update of that player
pause_history(bus, update) ==
    IF crashed' \/ bus \notin registered(available_players) THEN paused_at
    ELSE IF update = Status("Paused")
            /\ info_of(available_players, bus).status = Some("Playing")
            /\ bus \in registered(available_players')
         THEN [paused_at EXCEPT
                 ![bus] = Some(get_current_timetag(info_of(available_players, bus), now))]
         ELSE [paused_at EXCEPT ![bus] = None]

\* Some((bus_name, player_update)) = player_update_receiver.recv()
PlayerUpdate ==
    /\ ~crashed
    /\ channel # <<>>
    /\ \E r \in handle_player_update(available_players, lyrics_manager,
                                     Head(channel).bus, Head(channel).update, now) :
          Commit(r)
    /\ channel' = Tail(channel)
    /\ last' = Branch("Update", Head(channel).bus, Some(Head(channel).update))
    /\ paused_at' = pause_history(Head(channel).bus, Head(channel).update)
    /\ UNCHANGED <<tasks, loop_check_timer, now, events, call,
                   dbus_stream, allowed_players>>

\* () = &mut lyrics_manager.current_player_timer: the Sleep has elapsed
LyricsTimer ==
    /\ ~crashed
    /\ IsSome(lyrics_manager.current_player_timer)
    /\ now >= Unwrap(lyrics_manager.current_player_timer)
    /\ Commit(handle_lyrics_timer(available_players, lyrics_manager, now))
    /\ last' = Branch("Timer", "", None)
    /\ UNCHANGED <<tasks, channel, loop_check_timer, now, events, paused_at, call,
                   dbus_stream, allowed_players>>

\* _ = loop_check_timer.tick(), MissedTickBehavior::Skip
LoopCheck ==
    /\ ~crashed
    /\ now >= loop_check_timer
    /\ \E visited \in loop_check_visits(available_players, lyrics_manager) :
          Commit(handle_loop_check_timer(available_players, lyrics_manager, visited, now))
    /\ loop_check_timer' = loop_check_timer
           + LoopCheckPeriodSecs * (((now - loop_check_timer) \div LoopCheckPeriodSecs) + 1)
    /\ last' = Branch("Check", "", None)
    /\ UNCHANGED <<tasks, channel, now, events, paused_at, call,
                   dbus_stream, allowed_players>>

\* a second passes
Tick(max_now) ==
    /\ ~crashed
    /\ now < max_now
    /\ now' = now + 1
    /\ last' = Branch("Tick", "", None)
    /\ out' = <<>>
    /\ log' = {}
    /\ UNCHANGED <<available_players, lyrics_manager, tasks, channel,
                   loop_check_timer, events, crashed, paused_at, call,
                   dbus_stream, allowed_players>>

\* event_loop, before the first iteration
InitRun ==
    /\ available_players = [b \in BusNames |-> None]
    /\ lyrics_manager = NewLyricsManager
    /\ tasks = {}
    /\ channel = <<>>
    /\ loop_check_timer = 0
    /\ now = 0
    /\ events = 0
    /\ crashed = FALSE
    /\ last = Branch("Init", "", None)
    /\ out = <<>>
    /\ log = {}
    /\ paused_at = [b \in BusNames |-> None]
    /\ dbus_stream = "open"

\* --player is not given: default_values_t = ["all"]
InitLoop == InitRun /\ allowed_players = << AllPlayers >>

Init == InitLoop /\ call = None

-----------------------------------------------------------------------------
(* Spec: two players, the inputs that decide who is registered and who is   *)
(* active.                                                                  *)

Statuses == {"Playing", "Paused"}

\* the track each player has loaded when it appears
DuoMetadata == ("org.mpris.MediaPlayer2.p1" :> MetaA) @@ ("org.mpris.MediaPlayer2.p2" :> MetaC)

DuoUpdates == {Status(st) : st \in Statuses} \cup {Metadata(MetaB)}

Next ==
    \/ \E bus \in BusNames, st \in Statuses :
          BusCreated(bus, DuoMetadata[bus], 0, None, Some(st))
    \/ \E bus \in BusNames : BusCreatedFails(bus)
    \/ \E bus \in BusNames : BusDestroyed(bus)
    \/ \E task \in tasks, u \in DuoUpdates : ListenerSend(task, u)
    \/ PlayerUpdate
    \/ LyricsTimer
    \/ LoopCheck
    \/ Tick(DuoMaxNow)

Spec == Init /\ [][Next]_vars

-----------------------------------------------------------------------------
(* SpecSolo: one player, the inputs that decide the position, the line and  *)
(* the timer.                                                               *)

SoloBus == "org.mpris.MediaPlayer2.p1"

SoloPositions == {-1, 3, 150, 170, 179}

SoloRates == {2}

SoloUpdates(t) ==
    {Status(st) : st \in Statuses}
        \cup {Position(p, t) : p \in SoloPositions}
        \cup {Rate(r) : r \in SoloRates}

NextSolo ==
    \/ \E p \in {-1, 0}, st \in Statuses :
          BusCreated(SoloBus, MetaA, p, None, Some(st))
    \/ BusDestroyed(SoloBus)
    \/ \E task \in tasks, u \in SoloUpdates(now) : ListenerSend(task, u)
    \/ PlayerUpdate
    \/ LyricsTimer
    \/ LoopCheck
    \/ Tick(MaxNow)

SpecSolo == Init /\ [][NextSolo]_vars

-----------------------------------------------------------------------------
(* SpecReload: one player that appears Playing at the start of track A and  *)
(* then seeks, pauses and resumes, repeats its metadata, or moves to        *)
(* another track, with or without lyrics.                                   *)

ReloadPositions == {3, 170, 179}

ReloadUpdates(t) ==
    {Position(p, t) : p \in ReloadPositions}
        \cup {Status(st) : st \in Statuses}
        \cup {Metadata(m) : m \in {MetaA2, MetaB, MetaC, MetaD}}

NextReload ==
    \/ BusCreated(SoloBus, MetaA, 0, None, Some("Playing"))
    \/ \E task \in tasks, u \in ReloadUpdates(now) : ListenerSend(task, u)
    \/ PlayerUpdate
    \/ LyricsTimer
    \/ LoopCheck
    \/ Tick(MaxNow)

SpecReload == Init /\ [][NextReload]_vars

-----------------------------------------------------------------------------
(* SpecTrack: two players that are Playing when they appear and change     *)
(* track: to a local file whose lyrics cannot be read, or to a stream for  *)
(* which no source has lyrics.                                              *)

TrackUpdates == {Metadata(MetaB), Metadata(MetaE)}

NextTrack ==
    \/ \E bus \in BusNames :
          BusCreated(bus, DuoMetadata[bus], 0, None, Some("Playing"))
    \/ \E bus \in BusNames : BusCreatedFails(bus)
    \/ \E bus \in BusNames : BusDestroyed(bus)
    \/ \E task \in tasks, u \in TrackUpdates : ListenerSend(task, u)
    \/ PlayerUpdate
    \/ LyricsTimer
    \/ LoopCheck
    \/ Tick(DuoMaxNow)

SpecTrack == Init /\ [][NextTrack]_vars

-----------------------------------------------------------------------------
(* SpecStream: the two players of Spec, and the stream of bus changes may   *)
(* end at any moment.                                                       *)

NextStream ==
    \/ Next
    \/ BusStreamClosed

SpecStream == Init /\ [][NextStream]_vars

-----------------------------------------------------------------------------
(* SpecAllow: the two players of Spec under a --player list: "all", a short *)
(* name in either case, a full bus name, the name of no player, or two      *)
(* names.                                                                   *)

AllowEntries ==
    { AllPlayers, << "p", "1" >>, << "P", "1" >>, << "x" >>,
      bus_name("org.mpris.MediaPlayer2.p1") }

AllowLists ==
    {<< e >> : e \in AllowEntries} \cup {<< << "x" >>, << "P", "2" >> >>}

InitAllow ==
    /\ InitRun
    /\ call = None
    /\ allowed_players \in AllowLists

NextAllow ==
    \/ Next
    \/ \E bus \in BusNames : BusChangeSkipped(bus)

SpecAllow == InitAllow /\ [][NextAllow]_vars

-----------------------------------------------------------------------------
(* SpecGet: Lrc::get on its own, on every document from_reader can build    *)
(* with keys in 0..MaxKey and one or two versions, and on the document of   *)
(* three lines at 0 s, 6.47 s and 13.34 s (keys in hundredths).             *)

SetMax(S) == CHOOSE x \in S : \A y \in S : x >= y

\* a version whose line at key k reads <<i, k>>
Version(i, keys) == [k \in keys |-> <<i, k>>]

QueryKeySets == SUBSET (0..MaxKey)

ThreeLineDoc == << Version(1, {0, 647, 1334}) >>

QueryDocs ==
    {<< Version(1, K) >> : K \in QueryKeySets}
        \cup {<< Version(1, K), Version(2, L) >> :
                 K \in QueryKeySets \ {{}}, L \in QueryKeySets \ {{}}}
        \cup {ThreeLineDoc}

QueryTimes == (0..(MaxKey + 1)) \cup {500, 647, 1000, 1334, 2000}

Query(lrc, time) ==
    [lrc |-> lrc, time |-> time, done |-> FALSE, texts |-> <<>>, next |-> None]

InitGet ==
    /\ InitLoop
    /\ call \in {Some(Query(d, t)) : d \in QueryDocs, t \in QueryTimes}

\* let (lrc_line, next_lrc_timetag) = lrc.get(&current_timetag)
LrcGet ==
    /\ IsSome(call) /\ ~Unwrap(call).done
    /\ LET q == Unwrap(call)
           r == get(q.lrc, q.time)
       IN call' = Some([q EXCEPT !.done = TRUE, !.texts = r.texts, !.next = r.next])
    /\ UNCHANGED loopVars

NextGet == LrcGet

SpecGet == InitGet /\ [][NextGet]_vars

-----------------------------------------------------------------------------
(* SpecParse: Lrc::from_reader on every text of up to MaxLines lines drawn  *)
(* from the samples, one line read per step.                                *)

LineSamples ==
    { << Tag(0, 1200), Word("Line 1 lyrics") >>,
      << Tag(0, 1720), Word("Line 2 lyrics") >>,
      << Tag(0, 500), Word("low") >>,
      << Tag(0, 2110), Tag(0, 4510), Word("Repeating lyrics") >>,
      << Tag(1, 0), Space, Tag(0, 500), Word("echo") >>,
      << Word("more") >>,
      << Bracket("ar: Jefferson Airplane") >>,
      << >>,
      << Tag(0, 1720), Gender("F:"), Space, Word("Line 2 lyrics") >>,
      << Tag(0, 0), Space, A2(0, 4), Space, Word("When"), Space,
         A2(0, 16), Space, Word("the") >> }

ParseInputs == UNION {[1..n -> LineSamples] : n \in 0..MaxLines}

\* the reader: the lines still to read, the lines read, the document so far
Reader(lines) == [lines |-> lines, read |-> <<>>, lrc |-> << <<>> >>]

InitParse ==
    /\ InitLoop
    /\ call \in {Some(Reader(lines)) : lines \in ParseInputs}

\* for line in lines { match line.time.len() { ... } }
ReadLine ==
    /\ IsSome(call) /\ Unwrap(call).lines # <<>>
    /\ LET r == Unwrap(call) IN
       call' = Some([lines |-> Tail(r.lines),
                     read |-> Append(r.read, Head(r.lines)),
                     lrc |-> from_reader_line(r.lrc, from_str(Head(r.lines)))])
    /\ UNCHANGED loopVars

NextParse == ReadLine

SpecParse == InitParse /\ [][NextParse]_vars

-----------------------------------------------------------------------------
(* SpecLine: LrcLine::from_str on every line made of a time tag followed by *)
(* up to MaxTokens tokens: vocal-part markers, whitespace, word-timing      *)
(* tags, a word.                                                            *)

LineAlphabet ==
    { Gender("F:"), Gender("M:"), Gender("D:"), Space, A2(0, 50), Word("la"),
      Tag(0, 200) }

TimedLines ==
    UNION {{<< Tag(0, 100) >> \o body : body \in [1..n -> LineAlphabet]} :
              n \in 0..MaxTokens}

LineCall(line) == [line |-> line, done |-> FALSE, time |-> <<>>, text |-> <<>>]

InitLine ==
    /\ InitLoop
    /\ call \in {Some(LineCall(line)) : line \in TimedLines}

\* LrcLine::from_str(&l)
ParseLine ==
    /\ IsSome(call) /\ ~Unwrap(call).done
    /\ LET q == Unwrap(call)
           r == from_str(q.line)
       IN call' = Some([q EXCEPT !.done = TRUE, !.time = r.time, !.text = r.text])
    /\ UNCHANGED loopVars

NextLine == ParseLine

SpecLine == InitLine /\ [][NextLine]_vars

-----------------------------------------------------------------------------
(* SpecListen: the listener of one player reads PlaybackStatus strings off  *)
(* the status stream.  A string is the sequence of its characters.          *)

\* fault injected to validate C35: a string that names no status is read
\* as Stopped
PlaybackStatus_from_str_or_stopped(s) ==
    CASE to_lowercase(s) = << "p", "l", "a", "y", "i", "n", "g" >> -> Some("Playing")
      [] to_lowercase(s) = << "p", "a", "u", "s", "e", "d" >> -> Some("Paused")
      [] OTHER -> Some("Stopped")

\* PlaybackStatus::from_str: None is Err(Unknown PlaybackStatus)
PlaybackStatus_from_str(s) ==
    CASE to_lowercase(s) = << "p", "l", "a", "y", "i", "n", "g" >> -> Some("Playing")
      [] to_lowercase(s) = << "p", "a", "u", "s", "e", "d" >> -> Some("Paused")
      [] to_lowercase(s) = << "s", "t", "o", "p", "p", "e", "d" >> -> Some("Stopped")
      [] OTHER -> None

\* tracing::warn!(?e, "Failed to parse MPRIS update")
ParseFailedMessage == "Failed to parse MPRIS update"

\* what the PlaybackStatus property of the player reads
StatusStrings ==
    { << "P", "l", "a", "y", "i", "n", "g" >>,
      << "P", "L", "A", "y", "i", "n", "g" >>,
      << "p", "a", "u", "s", "e", "d" >>,
      << "s", "t", "o", "p", "p", "e", "d" >>,
      << "P", "l", "a", "y" >>,
      <<>> }

\* update_listener.rs, the spawned loop, on a change of PlaybackStatus:
\* info_updater.update() parses the string; Ok is sent, Err is logged and
\* the loop continues
ListenerStatus(task, s) ==
    /\ ~crashed /\ events < MaxEvents
    /\ task \in tasks
    /\ LET parsed == PlaybackStatus_from_str(s) IN
       IF IsSome(parsed)
       THEN /\ Len(channel) < ChannelCapacity
            /\ channel' = Append(channel, [bus |-> task.bus,
                                            update |-> Status(Unwrap(parsed)),
                                            from |-> task.id])
            /\ log' = {}
       ELSE /\ channel' = channel
            /\ log' = {ParseFailedMessage}
    /\ events' = events + 1
    /\ last' = Branch("Listen", task.bus, None)
    /\ out' = <<>>
    /\ UNCHANGED <<available_players, lyrics_manager, tasks, loop_check_timer,
                   now, crashed, paused_at, call,
                   dbus_stream, allowed_players>>

NextListen ==
    \/ BusCreated(SoloBus, MetaA, 0, None, Some("Playing"))
    \/ \E task \in tasks, s \in StatusStrings : ListenerStatus(task, s)
    \/ PlayerUpdate
    \/ LyricsTimer
    \/ LoopCheck
    \/ Tick(MaxNow)

SpecListen == Init /\ [][NextListen]_vars

-----------------------------------------------------------------------------
(* SpecTimer: one player, one- and two-version documents, seeks, and the    *)
(* display timer firing boundary after boundary.                            *)

TimerTracks == {MetaA, MetaC}

TimerStarts == {0, 170}

TimerRates == {None, Some(2)}

TimerUpdates(t) == {Position(p, t) : p \in {1, 170}}

NextTimer ==
    \/ \E m \in TimerTracks, p \in TimerStarts, r \in TimerRates :
          BusCreated(SoloBus, m, p, r, Some("Playing"))
    \/ \E task \in tasks, u \in TimerUpdates(now) : ListenerSend(task, u)
    \/ PlayerUpdate
    \/ LyricsTimer
    \/ LoopCheck
    \/ Tick(TimerMaxNow)

SpecTimer == Init /\ [][NextTimer]_vars

-----------------------------------------------------------------------------
(* SpecStale: a player that is registered, destroyed and registered again   *)
(* while its listeners send updates.  The run starts when the first         *)
(* registration has been handled.                                           *)

StaleTracks == {MetaA, MetaC}

StaleUpdates(t) == {Position(3, t), Status("Paused")} \cup {Metadata(MetaC)}

\* the first Created event, handled by handle_bus_created at 0 s for a
\* Playing player; its listener is task 0
Registration(metadata, position, rate) ==
    handle_bus_created([b \in BusNames |-> None], NewLyricsManager, SoloBus,
                       snapshot(metadata, position, rate, Some("Playing"), 0), 0, 0)

\* track A probed at position 0
FirstRegistration == Registration(MetaA, 0, None)

InitStale ==
    /\ available_players = FirstRegistration.players
    /\ lyrics_manager = FirstRegistration.lm
    /\ tasks = {[bus |-> SoloBus, id |-> 0]}
    /\ channel = <<>>
    /\ loop_check_timer = 0
    /\ now = 0
    /\ events = 0
    /\ crashed = FALSE
    /\ last = Branch("Created", SoloBus, None)
    /\ out = FirstRegistration.out
    /\ log = {}
    /\ paused_at = [b \in BusNames |-> None]
    /\ dbus_stream = "open"
    /\ allowed_players = << AllPlayers >>
    /\ call = None

NextStale ==
    \/ \E m \in StaleTracks : BusCreated(SoloBus, m, 0, None, Some("Playing"))
    \/ BusDestroyed(SoloBus)
    \/ \E task \in tasks, u \in StaleUpdates(now) : ListenerSend(task, u)
    \/ PlayerUpdate
    \/ LyricsTimer
    \/ LoopCheck
    \/ Tick(MaxNow)

SpecStale == InitStale /\ [][NextStale]_vars

-----------------------------------------------------------------------------
(* SpecChain: a registered player and nothing but the clock, the display    *)
(* timer and the periodic check: no membership event and no update.  The    *)
(* clock advances and a ready timer branch is eventually taken.  The tracks *)
(* start where their remaining boundaries fall before the clock stops.      *)

\* the wall clock stops advancing here (SpecChain)
ChainMaxNow == 3

ChainStarts == {<< MetaA, 170 >>, << MetaA, 171 >>, << MetaA, 172 >>,
                << MetaC, 0 >>, << MetaC, 1 >>}

ChainRates == {None, Some(2)}

InitChain ==
    \E s \in ChainStarts, r \in ChainRates :
       /\ available_players = Registration(s[1], s[2], r).players
       /\ lyrics_manager = Registration(s[1], s[2], r).lm
       /\ tasks = {[bus |-> SoloBus, id |-> 0]}
       /\ channel = <<>>
       /\ loop_check_timer = 0
       /\ now = 0
       /\ events = 0
       /\ crashed = FALSE
       /\ last = Branch("Created", SoloBus, None)
       /\ out = Registration(s[1], s[2], r).out
       /\ log = {}
       /\ paused_at = [b \in BusNames |-> None]
       /\ dbus_stream = "open"
       /\ allowed_players = << AllPlayers >>
       /\ call = None

NextChain ==
    \/ LyricsTimer
    \/ LoopCheck
    \/ Tick(ChainMaxNow)

\* tokio's clock advances, and select! takes a branch that stays ready
SpecChain ==
    /\ InitChain /\ [][NextChain]_vars
    /\ WF_vars(Tick(ChainMaxNow))
    /\ WF_vars(LyricsTimer)

-----------------------------------------------------------------------------
(* SpecResolve: get_lyrics_with_external applied to one metadata map.       *)

\* xesam:url: absent, a file with a sidecar, a file without lyrics, a stream
ResolveUrls == {None, Some("file:///a.mp3"), Some("file:///b.mp3"), Some("http://d")}

\* xesam:title: "D" is the track the external provider has lyrics for
ResolveTitles == {None, Some("A"), Some("D")}

\* xesam:asText: absent, all on one line, on several lines
ResolveTexts ==
    {None, Some([single_line |-> TRUE, lrc |-> EmptyDoc]),
     Some([single_line |-> FALSE, lrc |-> EmptyDoc])}

ResolveTrackIds == {None, Some("/track/x")}

ResolveInputs ==
    {Meta(url, title, trackid, None, text) :
        url \in ResolveUrls, title \in ResolveTitles,
        trackid \in ResolveTrackIds, text \in ResolveTexts}

Resolution(metadata) == [metadata |-> metadata, done |-> FALSE, result |-> LyricsNone]

InitResolve ==
    /\ InitLoop
    /\ call \in {Some(Resolution(m)) : m \in ResolveInputs}

\* get_lyrics_async(info, external_lrc_providers, navidrome_config).await
Resolve ==
    /\ IsSome(call) /\ ~Unwrap(call).done
    /\ call' = Some([Unwrap(call) EXCEPT
                       !.done = TRUE,
                       !.result = get_lyrics_with_external(Unwrap(call).metadata)])
    /\ UNCHANGED loopVars

NextResolve == Resolve

SpecResolve == InitResolve /\ [][NextResolve]_vars

-----------------------------------------------------------------------------
(* SpecLoop: one player near the end of its track, over two ticks of the   *)
(* periodic check.                                                          *)

\* the position the player reports when it appears
LoopStarts == {0, 178}

LoopUpdates(t) ==
    {Position(p, t) : p \in {3, 178}} \cup {Metadata(m) : m \in {MetaC}}

NextLoop ==
    \/ \E p \in LoopStarts : BusCreated(SoloBus, MetaA, p, None, Some("Playing"))
    \/ \E task \in tasks, u \in LoopUpdates(now) : ListenerSend(task, u)
    \/ PlayerUpdate
    \/ LyricsTimer
    \/ LoopCheck
    \/ Tick(LoopMaxNow)

SpecLoop == Init /\ [][NextLoop]_vars

-----------------------------------------------------------------------------
(* The properties.  A handler's postcondition is stated for the handlers    *)
(* that return: a panic ends the process and is the subject of C8.          *)

slot == lyrics_manager.current_player

\* the render of the line Lrc::get finds at the player's current time tag
line_render(lrc, info, t) ==
    WaybarCustomModule(Some(get(lrc, get_current_timetag(info, t)).texts),
                       Some(info.metadata))

\* C1: after any sequence of events the display timer is armed exactly when
\* the current-player slot is Active with a known, non-exhausted next
\* boundary; with the slot Empty or exhausted the timer is disarmed.
C1_TimerArmedIffSlotActive ==
    ~crashed =>
        (IsSome(lyrics_manager.current_player_timer)
            <=> (IsSome(slot) /\ Unwrap(slot).next_lrc_timetag # ExhaustedTag))

C3_OneListenerPerRegisteredPlayer ==
    ~crashed =>
        tasks = {[bus |-> b, id |-> Unwrap(available_players[b]).task] :
                    b \in registered(available_players)}

\* C4: an update the dispatcher receives for a bus that is not in the
\* registry, one buffered when its player was destroyed included, changes no
\* player state, neither the slot nor the timer, and prints nothing.
C4_UnregisteredUpdateDiscarded ==
    [][(/\ last'.op = "Update" /\ channel # <<>> /\ channel' = Tail(channel)
        /\ Head(channel).bus \notin registered(available_players))
       => /\ available_players' = available_players
          /\ lyrics_manager' = lyrics_manager
          /\ out' = <<>>
          /\ ~crashed']_vars

\* C4, its case: the update of a destroyed player was received and dropped
C4_Witness ==
    /\ last.op = "Update" /\ ~crashed
    /\ last.bus \notin registered(available_players)
    /\ log = {UnknownPlayerMessage}
    /\ tasks = {}

\* C5: once a status update to Paused has been applied at instant t1, the
\* player's current time tag stays what it was at t1 while the clock
\* advances, until the next update of that player is applied.
C5_PausedTimetagFrozen ==
    ~crashed =>
        \A b \in BusNames :
            IsSome(paused_at[b]) =>
                /\ b \in registered(available_players)
                /\ get_current_timetag(info_of(available_players, b), now)
                       = Unwrap(paused_at[b])

\* C5, its case: a player that had played on is Paused and two seconds
\* have gone by since
C5_Witness ==
    /\ ~crashed /\ last.op = "Tick"
    /\ \E b \in registered(available_players) :
          /\ IsSome(paused_at[b]) /\ Unwrap(paused_at[b]) > 0
          /\ now >= info_of(available_players, b).position_last_refresh + 2

\* C6: a player paused by a status update at t1 and resumed by a status
\* update at t2, with no update in between, has right after the resume the
\* current time tag it had at t1.
C6_ResumeKeepsTimetag ==
    [][(/\ last'.op = "Update" /\ channel # <<>> /\ channel' = Tail(channel)
        /\ ~crashed'
        /\ Head(channel).update = Status("Playing")
        /\ IsSome(paused_at[Head(channel).bus]))
       => get_current_timetag(info_of(available_players', Head(channel).bus), now')
             = Unwrap(paused_at[Head(channel).bus])]_vars

\* C7: while a Playing player with a fixed rate gets no update, its current
\* time tag does not decrease as the clock advances, and it never exceeds
\* the track length when the metadata declares one.
C7_PlayingTimetagMonotoneBounded ==
    [][\A b \in registered(available_players') :
          LET info == info_of(available_players', b)
              length == track_length(info.metadata)
          IN (~crashed' /\ info.status = Some("Playing") /\ ~negative_timetag(info))
             => /\ IsSome(length) => get_current_timetag(info, now') <= Unwrap(length)
                /\ (b \in registered(available_players)
                       /\ info_of(available_players, b) = info)
                      => get_current_timetag(info, now')
                            >= get_current_timetag(info, now)]_vars

\* C7, its case: the clock advanced while a Playing player's extrapolated
\* position was already past the declared length
C7_Witness ==
    /\ ~crashed /\ last.op = "Tick"
    /\ \E b \in registered(available_players) :
          LET info == info_of(available_players, b) IN
          /\ info.status = Some("Playing") /\ ~negative_timetag(info)
          /\ IsSome(track_length(info.metadata))
          /\ calculate_total_elapsed(info, now) > Unwrap(track_length(info.metadata))
          /\ now > info.position_last_refresh

\* C8: a negative position reported by a player does not abort the process.
C8_NegativePositionKeepsRunning == ~crashed

\* C9: for the current player, Playing a 180 s track, whose last observed
\* position is 170 s, a position update reporting 3 s is flagged as a loop restart and
\* the line at the reported position is displayed again; with a slot that is
\* not exhausted, a position update 20 s behind the last observed position
\* is not flagged, whatever that position was.
C9_LoopRestartDetection ==
    [][(/\ last'.op = "Update" /\ channel # <<>> /\ channel' = Tail(channel)
        /\ ~crashed'
        /\ Head(channel).update.kind = "Position"
        /\ IsSome(slot) /\ Unwrap(slot).bus = Head(channel).bus
        /\ Head(channel).bus \in registered(available_players)
        /\ info_of(available_players, Head(channel).bus).status = Some("Playing"))
       => LET bus == Head(channel).bus
              info == info_of(available_players', bus)
              prev == lyrics_manager.last_known_position
              cur == get_current_timetag(info, now')
              live == Unwrap(slot).next_lrc_timetag # ExhaustedTag
          IN /\ (/\ prev = Some(170) /\ track_length(info.metadata) = Some(180)
                 /\ Head(channel).update.position = Some(3))
                => /\ LoopRestartMessage \in log'
                   /\ out' # <<>>
                   /\ out'[1] = line_render(Unwrap(slot).lrc, info, now')
             /\ (live /\ IsSome(prev) /\ Unwrap(prev) - cur = 20)
                => LoopRestartMessage \notin log'
             /\ live
                => \A q \in 20..240 :
                      ~detect_loop_restart(
                          [lyrics_manager EXCEPT !.last_known_position = Some(q)],
                          q - 20, TRUE, FALSE)]_vars

\* C9, its case: the jump from 170 s to 3 s was flagged and displayed
C9_Witness ==
    /\ last.op = "Update" /\ ~crashed
    /\ last.update = Some(Position(3, now))
    /\ LoopRestartMessage \in log
    /\ out # <<>>
    /\ lyrics_manager.last_known_position = Some(3)

\* the line of one version at `time` as the lookup is specified: the text
\* at the greatest key at or before `time`
line_at_or_before(lines, time) ==
    LET below == {k \in DOMAIN lines : k <= time} IN
    IF below = {} THEN <<>> ELSE << lines[SetMax(below)] >>

RECURSIVE lines_at_or_before(_, _, _)
lines_at_or_before(lrc, time, i) ==
    IF i > Len(lrc) THEN <<>>
    ELSE line_at_or_before(lrc[i], time) \o lines_at_or_before(lrc, time, i + 1)

\* C10: the texts a lookup at t returns are, version by version, the text
\* at the greatest key at or before t, a version without such a key giving
\* none; at 5.00 s of the lines at 0 s, 6.47 s, 13.34 s it is the 0 s line.
C10_GetReturnsLineAtOrBefore ==
    (IsSome(call) /\ Unwrap(call).done) =>
        Unwrap(call).texts
            = lines_at_or_before(Unwrap(call).lrc, Unwrap(call).time, 1)


\* the boundaries after `time` as the lookup is specified: of each version
\* the smallest key strictly greater than `time`
keys_after(lrc, time) ==
    {SetMin({k \in DOMAIN lrc[i] : k > time}) :
        i \in {j \in 1..Len(lrc) : \E k \in DOMAIN lrc[j] : k > time}}

\* C11: the next boundary a lookup at t returns is the minimum, over the
\* versions, of the smallest key strictly greater than t, and none exactly
\* when no version has a key greater than t; a version with no key at or
\* before t still contributes its first key.
C11_GetReturnsEarliestNextBoundary ==
    (IsSome(call) /\ Unwrap(call).done) =>
        Unwrap(call).next
            = (IF keys_after(Unwrap(call).lrc, Unwrap(call).time) = {}
               THEN None
               ELSE Some(SetMin(keys_after(Unwrap(call).lrc, Unwrap(call).time))))


\* C12: when the display timer fires and no version of the slot's document
\* has a key after the boundary just reached, the handler keeps the slot on
\* the same player and document, marked exhausted, disarms the timer, and
\* the last thing it prints is the empty line.
C12_TimerAtLastBoundaryKeepsSlot ==
    [][(/\ last'.op = "Timer"
        /\ IsSome(slot)
        /\ keys_after(Unwrap(slot).lrc, Unwrap(slot).next_lrc_timetag) = {})
       => /\ ~crashed'
          /\ lyrics_manager'.current_player
                = Some(CurrentPlayerState(Unwrap(slot).bus, Unwrap(slot).lrc,
                                          ExhaustedTag))
          /\ lyrics_manager'.current_player_timer = None
          /\ out' # <<>>
          /\ out'[Len(out')]
                = WaybarCustomModule(Some(<<>>),
                      Some(info_of(available_players, Unwrap(slot).bus).metadata))]_vars

\* C12, its case: the timer fired at 172 s, the last key of the document
C12_Witness ==
    /\ last.op = "Timer" /\ ~crashed
    /\ IsSome(slot)
    /\ Unwrap(slot).next_lrc_timetag = ExhaustedTag
    /\ lyrics_manager.current_player_timer = None
    /\ Len(out) = 2
    /\ out[1].text = Some(<< "a172" >>)
    /\ out[2].text = Some(<<>>)


\* the update at the head of the channel changes the track of the current
\* player to one whose lyrics no source resolves
track_change_fails ==
    /\ channel # <<>>
    /\ IsSome(slot)
    /\ Unwrap(slot).bus = Head(channel).bus
    /\ Head(channel).bus \in registered(available_players)
    /\ Head(channel).update.kind = "Metadata"
    /\ track_identity(Unwrap(Head(channel).update.metadata))
          # track_identity(info_of(available_players, Head(channel).bus).metadata)
    /\ get_lyrics_with_external(Unwrap(Head(channel).update.metadata)).kind # "ok"

C14_SlotEmptiedWithEmptyRender ==
    [][(IsSome(slot) /\ lyrics_manager'.current_player = None /\ ~crashed')
       => \E i \in 1..Len(out') : out'[i] = EmptyModule]_vars


\* the branches of select! other than the bus change
HandlerBranches == {"Update", "Timer", "Check"}

\* C15: the event loop terminates when the source of membership changes
\* fails or ends, so that once the end of the stream has been seen no branch
\* of the loop runs any more, and it terminates for no other reason: while
\* the stream is open no handler ends the process.
C15_LoopEndsExactlyWithSource ==
    [][/\ dbus_stream = "closed" => last'.op \notin HandlerBranches
       /\ dbus_stream' = "open" => ~crashed']_vars


\* the allow-list as it is specified: the wildcard, or an entry equal,
\* letter case ignored, to the short name or to the full name of the player
allowed_as_specified(bus, players) ==
    \E i \in 1..Len(players) :
        \/ players[i] = AllPlayers
        \/ to_lowercase(players[i]) = to_lowercase(short_name(bus))
        \/ to_lowercase(players[i]) = to_lowercase(bus_name(bus))

\* the outcomes of the bus-change branch of the loop
BusChangeBranches == {"Created", "CreatedFails", "Destroyed", "Skipped"}

\* C16: a membership event for a player of the namespace is acted on if and
\* only if the allow-list has the wildcard all or an entry equal, letter
\* case ignored, to the player's short name or to its full name; an event
\* that is not acted on adds no registry entry, leaves the slot alone and
\* prints nothing.
C16_AllowListFiltersMembershipEvents ==
    [][(events' = events + 1 /\ last'.op \in BusChangeBranches)
       => /\ last'.op # "Skipped"
                <=> allowed_as_specified(last'.bus, allowed_players)
          /\ last'.op = "Skipped"
                => /\ available_players' = available_players
                   /\ lyrics_manager' = lyrics_manager
                   /\ out' = <<>>]_vars


\* the reader before and after the step, the line the step reads and what
\* LrcLine::from_str makes of it
reader == Unwrap(call)

line_read == from_str(Head(reader.lines))

current_version == reader.lrc[Len(reader.lrc)]

\* a step of the reader that leaves the versions before the current one as
\* they were
closed_versions_kept ==
    \A i \in 1..(Len(reader.lrc) - 1) : reader.lrc[i] = reader'.lrc[i]

\* the current version after the step is the one before it with `text` at
\* every key of `times`
current_version_gets(times, text) ==
    LET after == reader'.lrc[Len(reader.lrc)] IN
    /\ DOMAIN after = DOMAIN current_version \cup times
    /\ \A k \in times : after[k] = text
    /\ \A k \in DOMAIN current_version \ times : after[k] = current_version[k]

\* the time tags of the lines read so far, for lines with one time tag
stamp_of(i) == from_str(reader.read[i]).time[1]

\* C17: a text in which every line starts with exactly one time tag, the
\* tags increasing from line to line, parses to a single version with
\* exactly one key per line, each key mapped to the text of its line.
C17_IncreasingLinesGiveOneVersion ==
    (/\ IsSome(call)
     /\ \A i \in 1..Len(reader.read) : Len(from_str(reader.read[i]).time) = 1
     /\ \A i, j \in 1..Len(reader.read) : i < j => stamp_of(i) < stamp_of(j))
    => /\ Len(reader.lrc) = 1
       /\ DOMAIN reader.lrc[1] = {stamp_of(i) : i \in 1..Len(reader.read)}
       /\ Cardinality(DOMAIN reader.lrc[1]) = Len(reader.read)
       /\ \A i \in 1..Len(reader.read) :
             reader.lrc[1][stamp_of(i)] = from_str(reader.read[i]).text

\* C17, its case: the lines at 12.00 s and 17.20 s have been read
C17_Witness ==
    /\ IsSome(call)
    /\ reader.lines = <<>>
    /\ reader.read = << << Tag(0, 1200), Word("Line 1 lyrics") >>,
                        << Tag(0, 1720), Word("Line 2 lyrics") >> >>
    /\ reader.lrc = << (1200 :> << Word("Line 1 lyrics") >>
                        @@ 1720 :> << Word("Line 2 lyrics") >>) >>

C19_SingleTagInsertsOrStartsVersion ==
    [][(IsSome(call) /\ call' # call /\ Len(line_read.time) = 1)
       => IF /\ DOMAIN current_version # {}
             /\ line_read.time[1] < SetMax(DOMAIN current_version)
          THEN /\ Len(reader'.lrc) = Len(reader.lrc) + 1
               /\ closed_versions_kept
               /\ reader'.lrc[Len(reader.lrc)] = current_version
               /\ DOMAIN reader'.lrc[Len(reader'.lrc)] = {line_read.time[1]}
               /\ reader'.lrc[Len(reader'.lrc)][line_read.time[1]] = line_read.text
          ELSE /\ Len(reader'.lrc) = Len(reader.lrc)
               /\ closed_versions_kept
               /\ current_version_gets({line_read.time[1]}, line_read.text)]_vars

\* C19, its case: the line at 5.00 s read after the line at 12.00 s opened a
\* second version
C19_Witness ==
    /\ IsSome(call)
    /\ reader.read = << << Tag(0, 1200), Word("Line 1 lyrics") >>,
                        << Tag(0, 500), Word("low") >> >>
    /\ reader.lrc = << (1200 :> << Word("Line 1 lyrics") >>),
                       (500 :> << Word("low") >>) >>

\* C20: reading a line without a time tag appends its text, after a single
\* space, to the text of the latest entry of the current version; when the
\* current version has no entry yet, an entry at zero is created with it.
C20_UntimedLineJoinedBySpace ==
    [][(IsSome(call) /\ call' # call /\ Len(line_read.time) = 0)
       => /\ Len(reader'.lrc) = Len(reader.lrc)
          /\ closed_versions_kept
          /\ IF DOMAIN current_version # {}
             THEN current_version_gets(
                      {SetMax(DOMAIN current_version)},
                      current_version[SetMax(DOMAIN current_version)]
                          \o << Space >> \o line_read.text)
             ELSE current_version_gets({0}, line_read.text)]_vars


\* the line without the time tags and the whitespace it starts with
RECURSIVE after_time_tags(_)
after_time_tags(line) ==
    IF line # <<>> /\ Head(line).kind \in {"tag", "space"}
    THEN after_time_tags(Tail(line)) ELSE line

\* the tokens without the whitespace they start with
RECURSIVE without_leading_space(_)
without_leading_space(s) ==
    IF s # <<>> /\ Head(s).kind = "space" THEN without_leading_space(Tail(s))
    ELSE s

\* a leading vocal-part marker goes, with the whitespace after it
without_marker(s) ==
    IF s # <<>> /\ Head(s).kind = "gender" THEN without_leading_space(Tail(s))
    ELSE s

\* every word-timing tag goes, with the whitespace after it
RECURSIVE without_word_timing(_)
without_word_timing(s) ==
    IF s = <<>> THEN <<>>
    ELSE IF Head(s).kind = "a2"
    THEN without_word_timing(without_leading_space(Tail(s)))
    ELSE << Head(s) >> \o without_word_timing(Tail(s))

\* the number of vocal-part markers in a line
RECURSIVE markers(_)
markers(s) ==
    IF s = <<>> THEN 0
    ELSE (IF Head(s).kind = "gender" THEN 1 ELSE 0) + markers(Tail(s))

\* C21: the text of a parsed timestamped line (with at most one vocal-part
\* marker) is what follows the time tags without a leading marker F:, M: or
\* D: and the whitespace after it, and without any word-timing tag
\* <mm:ss.xx> and the whitespace after it; words and the spaces between them
\* are as in the line.
C21_MarkersAndWordTimingRemoved ==
    (IsSome(call) /\ Unwrap(call).done /\ markers(Unwrap(call).line) <= 1)
    => Unwrap(call).text
          = without_word_timing(without_marker(after_time_tags(Unwrap(call).line)))


\* the update at the head of the channel is for the current player
update_for_current ==
    /\ channel # <<>>
    /\ IsSome(slot)
    /\ Unwrap(slot).bus = Head(channel).bus
    /\ Head(channel).bus \in registered(available_players)

\* the update at the head of the channel leaves the track identity as it is
same_track ==
    Head(channel).update.kind = "Metadata"
        => track_identity(Unwrap(Head(channel).update.metadata))
              = track_identity(info_of(available_players, Head(channel).bus).metadata)

\* C22: an update for the current, still active player that is a rate
\* update, or a metadata update that leaves URL, title, artist and track id
\* unchanged, and is not flagged as a loop restart, prints nothing and
\* leaves the slot as it was (same player, document and next boundary) and
\* the timer pending as it was.
C22_QuietUpdateKeepsSlot ==
    [][(/\ last'.op = "Update" /\ channel' = Tail(channel)
        /\ update_for_current
        /\ Head(channel).update.kind \in {"Rate", "Metadata"}
        /\ same_track
        /\ ~crashed'
        /\ is_player_active(info_of(available_players', Head(channel).bus))
        /\ LoopRestartMessage \notin log')
       => /\ out' = <<>>
          /\ lyrics_manager'.current_player = lyrics_manager.current_player
          /\ lyrics_manager'.current_player_timer
                = lyrics_manager.current_player_timer]_vars


\* C23: after every update handled for the current player that leaves it
\* active, a rate update or one that causes no display action included, the
\* loop-tracking state holds the position and the loop ordinal computed
\* from the player's state as it is after the update.
C23_BookkeepingFollowsEveryUpdate ==
    [][(/\ last'.op = "Update" /\ channel' = Tail(channel)
        /\ update_for_current
        /\ same_track
        /\ ~crashed'
        /\ is_player_active(info_of(available_players', Head(channel).bus)))
       => /\ lyrics_manager'.last_known_position
                = Some(get_current_timetag(
                           info_of(available_players', Head(channel).bus), now))
          /\ lyrics_manager'.last_loop_count
                = Some(get_loop_count(
                           info_of(available_players', Head(channel).bus), now).count)]_vars


\* C24: applying a metadata update that does not change the track identity
\* replaces only the metadata of the player: the last reported position and
\* the instant it was captured are what they were.
C24_SameTrackMetadataKeepsPosition ==
    [][(/\ last'.op = "Update" /\ channel' = Tail(channel)
        /\ channel # <<>>
        /\ Head(channel).bus \in registered(available_players)
        /\ Head(channel).update.kind = "Metadata"
        /\ same_track
        /\ ~crashed')
       => LET before == info_of(available_players, Head(channel).bus)
              after == info_of(available_players', Head(channel).bus)
          IN /\ after.metadata = Unwrap(Head(channel).update.metadata)
             /\ after.position = before.position
             /\ after.position_last_refresh = before.position_last_refresh]_vars


\* the update at the head of the channel is a metadata update whose lyrics
\* resolve
resolves ==
    /\ Head(channel).update.kind = "Metadata"
    /\ get_lyrics_with_external(Unwrap(Head(channel).update.metadata)).kind = "ok"

\* the slot, the player, the render and the timer after a track change of
\* the player on bus to a track whose lyrics are lrc: position zero, the
\* lines at zero, the first boundary after zero
track_started(bus, lrc) ==
    LET after == info_of(available_players', bus)
        boundary == SetMin(keys_after(lrc, 0))
    IN /\ after.position = 0
       /\ after.position_last_refresh = now
       /\ out' = << WaybarCustomModule(Some(lines_at_or_before(lrc, 0, 1)),
                                       Some(after.metadata)) >>
       /\ keys_after(lrc, 0) # {}
       /\ lyrics_manager'.current_player
             = Some(CurrentPlayerState(bus, lrc, boundary))
       /\ lyrics_manager'.current_player_timer
             = Some(now + duration_from(boundary, 0, rate_or_default(after)))

restart_condition ==
    detect_loop_restart(lyrics_manager,
        get_current_timetag(info_of(available_players', Head(channel).bus), now),
        Head(channel).update.kind = "Position",
        Head(channel).update.kind = "Metadata")

redisplayed(bus, lrc) ==
    LET after == info_of(available_players', bus)
        position == get_current_timetag(after, now)
        later == keys_after(lrc, position)
    IN /\ IsSome(lyrics_manager'.current_player)
       /\ Unwrap(lyrics_manager'.current_player).bus = bus
       /\ Unwrap(lyrics_manager'.current_player).lrc = lrc
       /\ out' # <<>>
       /\ out'[1] = WaybarCustomModule(Some(lines_at_or_before(lrc, position, 1)),
                                       Some(after.metadata))
       /\ lyrics_manager'.current_player_timer
             = IF later = {} THEN None
               ELSE Some(now + duration_from(SetMin(later), position,
                                             rate_or_default(after)))

\* C28: an update for the current player that is a seek, a change of
\* playback status that leaves it playing, or flagged as a loop restart,
\* and leaves the track identity as it is, keeps the slot on the player and
\* its document, prints the line at the position the player then has and
\* arms the timer for the first boundary after that position, a slot that
\* was exhausted included.
C28_SameTrackUpdateRedisplays ==
    [][(/\ last'.op = "Update" /\ channel' = Tail(channel)
        /\ update_for_current
        /\ ~crashed'
        /\ is_player_active(info_of(available_players', Head(channel).bus))
        /\ same_track
        /\ \/ Head(channel).update.kind \in {"Position", "Status"}
           \/ LoopRestartMessage \in log')
       => redisplayed(Head(channel).bus, Unwrap(slot).lrc)]_vars


\* C29: an update for the current player is flagged as a loop restart only
\* when the position extrapolated from the updated state exceeds the
\* declared track length, or the slot is exhausted and the position is
\* below the short threshold with the previously observed one above the
\* larger threshold; with a slot that is not exhausted and a position
\* within the track length no backward jump is flagged.
C29_RestartOnlyPastLengthOrExhausted ==
    [][(/\ last'.op = "Update" /\ channel' = Tail(channel)
        /\ update_for_current
        /\ ~crashed'
        /\ LoopRestartMessage \in log')
       => LET info == info_of(available_players', Head(channel).bus)
              length == track_length(info.metadata)
              prev == lyrics_manager.last_known_position
          IN \/ IsSome(length) /\ calculate_total_elapsed(info, now) > Unwrap(length)
             \/ /\ Unwrap(slot).next_lrc_timetag = ExhaustedTag
                /\ get_current_timetag(info, now) < LoopNearStartSecs
                /\ IsSome(prev) /\ Unwrap(prev) > LoopWellIntoSecs]_vars


\* C30: when an update of the current player displays its lyrics again and
\* the position extrapolated from the updated state (last position plus
\* elapsed time) is beyond the declared track length, the line printed is
\* the one for position zero of the document shown.
C30_BeyondLengthWrapsToZero ==
    [][(/\ last'.op = "Update" /\ channel' = Tail(channel)
        /\ update_for_current
        /\ ~crashed'
        /\ is_player_active(info_of(available_players', Head(channel).bus))
        /\ out' # <<>>
        /\ IsSome(lyrics_manager'.current_player)
        /\ LET info == info_of(available_players', Head(channel).bus)
           IN /\ IsSome(track_length(info.metadata))
              /\ calculate_total_elapsed(info, now)
                    > Unwrap(track_length(info.metadata)))
       => out'[1] = WaybarCustomModule(
                        Some(lines_at_or_before(
                                 Unwrap(lyrics_manager'.current_player).lrc, 0, 1)),
                        Some(info_of(available_players', Head(channel).bus).metadata))]_vars


\* C31: at a periodic check with an Active slot, when the loop ordinal of
\* the current player exceeds the one recorded at the previous check, or
\* the slot is exhausted and the position is more than the large margin
\* behind the last observed one, the handler prints the line at the wrapped
\* position (elapsed modulo length), makes that position the player's
\* baseline and records ordinal and position recomputed from it; otherwise
\* it prints nothing and only records the fresh ordinal and position.
C31_PeriodicCheckRedisplaysOnLoop ==
    [][(/\ last'.op = "Check" /\ ~crashed'
        /\ IsSome(slot)
        /\ Unwrap(slot).bus \in registered(available_players))
       => LET bus == Unwrap(slot).bus
              info == info_of(available_players, bus)
              after == info_of(available_players', bus)
              loop == get_loop_count(info, now)
              calc_pos == get_current_timetag(info, now)
              prev == lyrics_manager.last_known_position
              ordinal_up == /\ IsSome(lyrics_manager.last_loop_count)
                            /\ loop.count > Unwrap(lyrics_manager.last_loop_count)
              jumped_back == /\ Unwrap(slot).next_lrc_timetag = ExhaustedTag
                             /\ IsSome(prev)
                             /\ Unwrap(prev) - calc_pos > LoopBackJumpSecs
          IN IF ordinal_up \/ jumped_back
             THEN /\ out' # <<>>
                  /\ out'[1] = WaybarCustomModule(
                                   Some(lines_at_or_before(Unwrap(slot).lrc,
                                                           loop.position, 1)),
                                   Some(info.metadata))
                  /\ after.position = loop.position
                  /\ after.position_last_refresh = now
                  /\ lyrics_manager'.last_loop_count
                        = Some(get_loop_count(after, now).count)
                  /\ lyrics_manager'.last_known_position
                        = Some(get_current_timetag(after, now))
             ELSE /\ out' = <<>>
                  /\ available_players' = available_players
                  /\ lyrics_manager'
                        = [lyrics_manager EXCEPT
                             !.last_loop_count = Some(loop.count),
                             !.last_known_position = Some(calc_pos)]]_vars


\* the track identity of the player the slot names
tracked(players, lm) ==
    track_identity(info_of(players, Unwrap(lm.current_player).bus).metadata)

\* C32: after a handler in which the track the slot shows changes (a track
\* change of the current player, or the slot moving to a player on another
\* track), the loop-tracking state holds nothing of the previous track:
\* last observed position and last loop ordinal are absent or are the ones
\* computed from the player and track now shown.
C32_LoopTrackingResetOnTrackChange ==
    [][(/\ ~crashed'
        /\ IsSome(slot) /\ IsSome(lyrics_manager'.current_player)
        /\ Unwrap(slot).bus \in registered(available_players)
        /\ Unwrap(lyrics_manager'.current_player).bus
              \in registered(available_players')
        /\ tracked(available_players', lyrics_manager')
              # tracked(available_players, lyrics_manager)
        /\ \/ last'.op = "Update" /\ channel' = Tail(channel)
           \/ Unwrap(lyrics_manager'.current_player).bus # Unwrap(slot).bus)
       => LET info == info_of(available_players',
                              Unwrap(lyrics_manager'.current_player).bus)
          IN /\ lyrics_manager'.last_known_position
                   \in {None, Some(get_current_timetag(info, now))}
             /\ lyrics_manager'.last_loop_count
                   \in {None, Some(get_loop_count(info, now).count)}]_vars


\* the step is the handling of an event of the player on bus: its creation,
\* its destruction, or an update its listener sent
event_of(bus) ==
    \/ /\ last'.op \in {"Created", "CreatedFails", "Destroyed"}
       /\ events' = events + 1
       /\ last'.bus = bus
    \/ /\ last'.op = "Update" /\ channel # <<>> /\ channel' = Tail(channel)
       /\ Head(channel).bus = bus

\* the metadata the player on bus has once the step is done, if it is
\* registered then
metadata_after(bus) ==
    IF bus \in registered(available_players')
    THEN Some(info_of(available_players', bus).metadata)
    ELSE None

\* C33: with the slot Active on a player, handling the creation, an update
\* or the destruction of another player leaves slot and timer as they were
\* and prints nothing; a player enters the slot on an event of its own only
\* from an Empty slot, and when its lyrics do not resolve the slot stays
\* Empty.
C33_OtherPlayersLeaveSlotAlone ==
    [][\A q \in BusNames :
         (event_of(q) /\ ~crashed')
            => /\ (IsSome(slot) /\ Unwrap(slot).bus # q)
                    => /\ lyrics_manager'.current_player = slot
                       /\ lyrics_manager'.current_player_timer
                             = lyrics_manager.current_player_timer
                       /\ out' = <<>>
               /\ (/\ IsSome(lyrics_manager'.current_player)
                   /\ Unwrap(lyrics_manager'.current_player).bus = q
                   /\ lyrics_manager'.current_player # slot)
                    => (~IsSome(slot) \/ Unwrap(slot).bus = q)
               /\ (/\ ~IsSome(slot)
                   /\ IsSome(metadata_after(q))
                   /\ get_lyrics_with_external(
                          Unwrap(metadata_after(q))).kind # "ok")
                    => /\ lyrics_manager'.current_player = None
                       /\ lyrics_manager'.current_player_timer = None]_vars

\* C33, its case: an update of a player that is Playing with lyrics that
\* resolve was handled while the slot was on the other player, and the
\* slot is still on the other player, nothing printed
C33_Witness ==
    /\ last.op = "Update" /\ ~crashed
    /\ last.bus \in registered(available_players)
    /\ is_player_active(info_of(available_players, last.bus))
    /\ get_lyrics_with_external(
          info_of(available_players, last.bus).metadata).kind = "ok"
    /\ IsSome(slot) /\ Unwrap(slot).bus # last.bus
    /\ Unwrap(slot).bus \in registered(available_players)
    /\ is_player_active(info_of(available_players, Unwrap(slot).bus))
    /\ out = <<>>


\* what each source of the chain has for a track, in the order inline text,
\* sidecar file, embedded tags, then the configured providers: the document
\* or None
RECURSIVE provider_sources(_, _)
provider_sources(metadata, i) ==
    IF i > Len(external_lrc_providers) THEN <<>>
    ELSE << IF external_lrc_providers[i] = "NAVIDROME"
            THEN fetch_lyrics_from_navidrome(metadata) ELSE None >>
         \o provider_sources(metadata, i + 1)

sources(metadata) ==
    LET on_disk == IsSome(metadata.url) /\ audio_url_to_path_ok(Unwrap(metadata.url))
    IN << IF IsSome(metadata.asText) THEN Some(Unwrap(metadata.asText).lrc) ELSE None,
          IF on_disk THEN lrc_file(Unwrap(metadata.url)) ELSE None,
          IF on_disk THEN from_audio_path(Unwrap(metadata.url)) ELSE None >>
       \o provider_sources(metadata, 1)

\* C34: the resolution of a track returns the document of the first source
\* of the chain (inline text, sidecar file, embedded tags, each provider in
\* the configured order) that has one, and reports no lyrics only when no
\* source of the chain has one.
C34_FirstSourceThatSucceedsWins ==
    (IsSome(call) /\ Unwrap(call).done) =>
        LET chain == sources(Unwrap(call).metadata)
            hits == {i \in DOMAIN chain : IsSome(chain[i])}
        IN IF hits = {} THEN Unwrap(call).result.kind # "ok"
           ELSE Unwrap(call).result = LyricsOk(Unwrap(chain[SetMin(hits)]))


\* the string names none of Playing, Paused, Stopped, in any letter case
malformed_status(s) ==
    to_lowercase(s) \notin { << "p", "l", "a", "y", "i", "n", "g" >>,
                            << "p", "a", "u", "s", "e", "d" >>,
                            << "s", "t", "o", "p", "p", "e", "d" >> }

\* C35: when a listener reads a status string that names none of Playing,
\* Paused and Stopped, nothing is sent to the dispatcher, registry, slot and
\* timer are unchanged, nothing is printed, and the listener is still
\* running; a string that names a status, in any letter case, is sent as
\* that status.
C35_MalformedStatusDropped ==
    [][\A task \in tasks, s \in StatusStrings :
         ListenerStatus(task, s)
            => IF malformed_status(s)
               THEN /\ channel' = channel
                    /\ available_players' = available_players
                    /\ lyrics_manager' = lyrics_manager
                    /\ out' = <<>>
                    /\ ~crashed'
                    /\ task \in tasks'
               ELSE /\ channel' # channel
                    /\ channel'[Len(channel')].bus = task.bus
                    /\ channel'[Len(channel')].update.kind = "Status"]_vars

\* C35, its case: the listener of the current player read a malformed
\* status and dropped it; the player is registered, current and its
\* listener runs
C35_Witness ==
    /\ last.op = "Listen" /\ ~crashed
    /\ log = {ParseFailedMessage}
    /\ channel = <<>>
    /\ IsSome(slot) /\ Unwrap(slot).bus = last.bus
    /\ last.bus \in registered(available_players)
    /\ [bus |-> last.bus, id |-> Unwrap(available_players[last.bus]).task] \in tasks


\* C36: whenever a handler arms the display timer, the boundary it stores
\* in the slot is strictly after the position it measured from (the
\* boundary held before, when the timer fired; the player's time tag
\* otherwise), and the deadline is not in the past; when the timer fires,
\* the boundary stored, the exhausted mark included, is strictly after the
\* one held before and the line printed is the one the lookup at the
\* boundary held before returns.
C36_TimerBoundariesIncrease ==
    [][(/\ ~crashed'
        /\ IsSome(lyrics_manager'.current_player)
        /\ Unwrap(lyrics_manager'.current_player).bus
              \in registered(available_players')
        /\ lyrics_manager' # lyrics_manager)
       => LET player == Unwrap(lyrics_manager'.current_player)
              info == info_of(available_players', player.bus)
              fired == last'.op = "Timer"
              from == IF fired THEN Unwrap(slot).next_lrc_timetag
                      ELSE get_current_timetag(info, now)
              armed == /\ IsSome(lyrics_manager'.current_player_timer)
                       /\ \/ lyrics_manager'.current_player_timer
                               # lyrics_manager.current_player_timer
                          \/ lyrics_manager'.current_player # slot
          IN /\ armed
                  => /\ player.next_lrc_timetag > from
                     /\ player.next_lrc_timetag # ExhaustedTag
                     /\ Unwrap(lyrics_manager'.current_player_timer) >= now
                     /\ Unwrap(lyrics_manager'.current_player_timer)
                           = now + duration_from(player.next_lrc_timetag, from,
                                                 rate_or_default(info))
             /\ fired
                  => /\ player.next_lrc_timetag > Unwrap(slot).next_lrc_timetag
                     /\ player.lrc = Unwrap(slot).lrc
                     /\ out' # <<>>
                     /\ out'[1] = WaybarCustomModule(
                                      Some(get(Unwrap(slot).lrc,
                                               Unwrap(slot).next_lrc_timetag).texts),
                                      Some(info.metadata))]_vars

\* C36, its case: the timer fired at 171 s and again at 172 s; the second
\* fire printed the 172 s line and left the slot exhausted
C36_Witness ==
    /\ last.op = "Timer" /\ ~crashed
    /\ IsSome(slot)
    /\ Unwrap(slot).next_lrc_timetag = ExhaustedTag
    /\ out # <<>>
    /\ out[1].text = Some(<< "a172" >>)
    /\ info_of(available_players, Unwrap(slot).bus).position = 170


\* C37: in every state between two handlers, hence at the start of every
\* handler, an Active slot names a player of the registry, so the lookups of
\* the display timer and of the periodic check find the current player.
C37_SlotNamesRegisteredPlayer ==
    IsSome(slot) => Unwrap(slot).bus \in registered(available_players)

\* C37, its case: the current player was destroyed and the slot moved to
\* the player that is left
C37_Witness ==
    /\ last.op = "Destroyed" /\ ~crashed
    /\ IsSome(slot)
    /\ Unwrap(slot).bus # last.bus
    /\ last.bus \notin registered(available_players)
    /\ out # <<>>


\* C38: a step of the display-timer branch leaves the timer disarmed or
\* armed anew: for an Active slot it is disarmed or armed for a boundary
\* after the one that fired, and for an Empty slot it is disarmed, so the
\* branch is not ready again without a new arming.
C38_TimerNeverLeftFired ==
    [][(last'.op = "Timer" /\ ~crashed')
       => IF IsSome(slot)
          THEN \/ lyrics_manager'.current_player_timer = None
               \/ /\ IsSome(lyrics_manager'.current_player)
                  /\ Unwrap(lyrics_manager'.current_player).next_lrc_timetag
                        > Unwrap(slot).next_lrc_timetag
          ELSE lyrics_manager'.current_player_timer = None]_vars


\* the update at the head of the channel was sent by the listener of an
\* earlier registration of its player, one that was destroyed since
stale_update ==
    /\ channel # <<>>
    /\ Head(channel).bus \in registered(available_players)
    /\ Head(channel).from # Unwrap(available_players[Head(channel).bus]).task
    /\ [bus |-> Head(channel).bus, id |-> Head(channel).from] \notin tasks

\* C39: handling an update that the listener of an earlier, destroyed
\* registration of a player sent changes neither the state of the player's
\* later registration nor the slot, and prints nothing.
C39_StaleUpdateNotApplied ==
    [][(last'.op = "Update" /\ stale_update)
       => /\ available_players' = available_players
          /\ lyrics_manager' = lyrics_manager
          /\ out' = <<>>]_vars


=============================================================================
